---- MODULE Spec2Model ----
(***************************************************************************)
(* Outline reconstruction, boundary resolution, section identity and leaf  *)
(* serialization of src/reports/pdf_parser.py.                             *)
(*                                                                         *)
(* The heap of PdfOutlineNode objects is the sequence `node`; an object is *)
(* named by its index.  Python's None is NoNode for an object reference,   *)
(* NoPage for next_sibling_page.  A section id "1.4.2" is the sequence of  *)
(* its dot-separated components <<1, 4, 2>>, the empty string is <<>>.     *)
(* The text of a chapter is the sequence of the 0-based pages whose text   *)
(* was appended to it, the empty string is <<>>.                           *)
(***************************************************************************)
EXTENDS Integers, Sequences, FiniteSets, TLC

\* ------------------------------------------------------------------ bounds
MaxNodes == 3
MaxPage == 2
TotalPages == 3
MaxItems == 4
MaxFiles == 3
MaxLines == 3
MaxTables == 2
MaxDepth == 2
MaxCoord == 3
MaxTextLines == 4

\* ------------------------------------------------------- values and inputs
NoNode == 0
NoPage == -1
NoneId == <<-1>>
RootTitle == "Root"
ErrorTitle == "Error"
\* the placeholder title of src/reports/pdf_parser.py:178, in ASCII
UnknownTitle == "UnknownChapter"
ItemTitles == {"", "A", "Root"}
PageNumbers == 0..MaxPage

VARIABLES node, root_node, stack, handled, pc, returned, outline, saved,
          rerun, first_pages, extracted, reader_outline,
          pdf_files, file_index, processed_files, failed_files, main_pc,
          lines, tables, emitted_table_indices, page_lines_collected, page_pc,
          plumber, leaf, chapter_text, visited, faults, in_bbox

\* The state of main()
batch == <<pdf_files, file_index, processed_files, failed_files, main_pc>>

\* The state of one parser
parser == <<node, root_node, stack, handled, pc, returned, outline, saved,
            rerun, first_pages, extracted, reader_outline>>

\* One page of the document and the extraction of a chapter's text from it
extraction == <<lines, tables, emitted_table_indices, page_lines_collected,
                page_pc, plumber, leaf, chapter_text, visited, faults, in_bbox>>

vars == <<node, root_node, stack, handled, pc, returned, outline, saved,
          rerun, first_pages, extracted, reader_outline,
          pdf_files, file_index, processed_files, failed_files, main_pc,
          lines, tables, emitted_table_indices, page_lines_collected, page_pc,
          plumber, leaf, chapter_text, visited, faults, in_bbox>>

\* ------------------------------------------------------- PdfOutlineNode
PdfOutlineNode(title, page_number, level) ==
    [title |-> title, page_number |-> page_number, level |-> level,
     children |-> <<>>, parent |-> NoNode, next_sibling_page |-> NoPage,
     content |-> <<>>, section_id |-> <<>>]

\* The child is put in front of the children already there
AddChildFirst(h, p, c) ==
    [h EXCEPT ![p].children = <<c>> \o @, ![c].parent = p]

\* The child is listed but its parent field is left as it was
AddChildUnowned(h, p, c) ==
    [h EXCEPT ![p].children = Append(@, c)]

\* parent.add_child(child) on heap h
add_child(h, parent, child) ==
    [h EXCEPT ![child].parent = parent,
              ![parent].children = Append(@, child)]

\* list.index(x), 0-based; -1 stands for ValueError
ListIndex(s, x) ==
    IF \E i \in 1..Len(s) : s[i] = x
    THEN (CHOOSE i \in 1..Len(s) : s[i] = x /\ \A j \in 1..(i - 1) : s[j] # x) - 1
    ELSE -1

\* path.append(title) where the code has path.insert(0, title)
RECURSIVE SectionPathLoopAppend(_, _, _)
SectionPathLoopAppend(h, current, path) ==
    IF current # NoNode /\ h[current].parent # NoNode /\ h[current].title # RootTitle
    THEN SectionPathLoopAppend(h, h[current].parent, Append(path, h[current].title))
    ELSE path

RECURSIVE SectionPathLoop(_, _, _)
SectionPathLoop(h, current, path) ==
    IF current # NoNode /\ h[current].parent # NoNode /\ h[current].title # RootTitle
    THEN SectionPathLoop(h, h[current].parent, <<h[current].title>> \o path)
    ELSE path

get_section_path(h, n) == SectionPathLoop(h, n, <<>>)

RECURSIVE generate_section_id(_, _)
generate_section_id(h, n) ==
    IF h[n].parent = NoNode \/ h[n].title = RootTitle
    THEN <<>>
    ELSE LET p == h[n].parent
             found == ListIndex(h[p].children, n)
             index == IF found >= 0 THEN found + 1 ELSE 1
             parent_id == IF h[p].title # RootTitle
                          THEN generate_section_id(h, p)
                          ELSE <<>>
         IN  IF parent_id # <<>> THEN parent_id \o <<index>> ELSE <<index>>

\* The heap after to_dict memoized the section id
ToDictHeap(h, n) ==
    IF h[n].section_id = <<>>
    THEN [h EXCEPT ![n].section_id = generate_section_id(h, n)]
    ELSE h

\* The dictionary to_dict returns, computed on the heap ToDictHeap left
to_dict(h, n) ==
    [content |-> h[n].content,
     section_id |-> h[n].section_id,
     section_title |-> h[n].title,
     section_path |-> get_section_path(h, n),
     page |-> h[n].page_number]

\* ------------------------------------------------------- boundary resolver
_get_next_sibling_node(h, n) ==
    IF h[n].parent = NoNode
    THEN NoNode
    ELSE LET sibs == h[h[n].parent].children
             current_index == ListIndex(sibs, n)
         IN  IF current_index >= 0 /\ current_index + 1 < Len(sibs)
             THEN sibs[current_index + 2]
             ELSE NoNode

_get_parent_next_sibling(h, n) ==
    IF h[n].parent = NoNode \/ h[h[n].parent].title = RootTitle
    THEN NoNode
    ELSE _get_next_sibling_node(h, h[n].parent)

_get_next_section_title(h, n) ==
    LET next_sibling == _get_next_sibling_node(h, n)
        parent_next == _get_parent_next_sibling(h, n)
    IN  IF next_sibling # NoNode
        THEN h[next_sibling].title
        ELSE IF parent_next # NoNode
             THEN h[parent_next].title
             ELSE ""

RECURSIVE _first_valid_page_in_subtree(_, _)
RECURSIVE FirstValidInChildren(_, _, _)
FirstValidInChildren(h, kids, i) ==
    IF i > Len(kids)
    THEN NoPage
    ELSE LET page == _first_valid_page_in_subtree(h, kids[i])
         IN  IF page # NoPage /\ page # 0
             THEN page
             ELSE FirstValidInChildren(h, kids, i + 1)

_first_valid_page_in_subtree(h, n) ==
    IF h[n].page_number # 0 /\ h[n].page_number > 0
    THEN h[n].page_number
    ELSE FirstValidInChildren(h, h[n].children, 1)

\* None for a trailing node where the code returns len(self.reader.pages)
RECURSIVE FindNextStartLoopNoneAtEnd(_, _)
FindNextStartLoopNoneAtEnd(h, current) ==
    LET next_sibling == _get_next_sibling_node(h, current)
        page == IF next_sibling # NoNode
                THEN _first_valid_page_in_subtree(h, next_sibling)
                ELSE NoPage
    IN  IF next_sibling # NoNode /\ page # NoPage /\ page # 0 /\ page > 0
        THEN page
        ELSE IF h[current].parent = NoNode \/ h[h[current].parent].title = RootTitle
             THEN NoPage
             ELSE FindNextStartLoopNoneAtEnd(h, h[current].parent)

RECURSIVE FindNextStartLoop(_, _)
FindNextStartLoop(h, current) ==
    LET next_sibling == _get_next_sibling_node(h, current)
        page == IF next_sibling # NoNode
                THEN _first_valid_page_in_subtree(h, next_sibling)
                ELSE NoPage
    IN  IF next_sibling # NoNode /\ page # NoPage /\ page # 0 /\ page > 0
        THEN page
        ELSE IF h[current].parent = NoNode \/ h[h[current].parent].title = RootTitle
             THEN TotalPages
             ELSE FindNextStartLoop(h, h[current].parent)

_find_next_start_page(h, n) == FindNextStartLoop(h, n)

RECURSIVE _set_next_sibling_pages(_, _)

\* A sibling without a page of its own lends its stored next_sibling_page,
\* which the first run has not set yet when it is read
RECURSIVE SetChildrenFromStored(_, _, _)
SetChildrenFromStored(h, n, i) ==
    LET kids == h[n].children
    IN  IF i > Len(kids)
        THEN h
        ELSE LET current_child == kids[i]
                 h1 == IF i < Len(kids)
                       THEN [h EXCEPT ![current_child].next_sibling_page =
                                IF h[kids[i + 1]].page_number = 0
                                       /\ h[kids[i + 1]].next_sibling_page # NoPage
                                THEN h[kids[i + 1]].next_sibling_page
                                ELSE h[kids[i + 1]].page_number]
                       ELSE [h EXCEPT ![current_child].next_sibling_page =
                                          _find_next_start_page(h, current_child)]
             IN  SetChildrenFromStored(_set_next_sibling_pages(h1, current_child), n, i + 1)

RECURSIVE SetChildrenFrom(_, _, _)
SetChildrenFrom(h, n, i) ==
    LET kids == h[n].children
    IN  IF i > Len(kids)
        THEN h
        ELSE LET current_child == kids[i]
                 h1 == IF i < Len(kids)
                       THEN [h EXCEPT ![current_child].next_sibling_page =
                                          h[kids[i + 1]].page_number]
                       ELSE [h EXCEPT ![current_child].next_sibling_page =
                                          _find_next_start_page(h, current_child)]
             IN  SetChildrenFrom(_set_next_sibling_pages(h1, current_child), n, i + 1)

_set_next_sibling_pages(h, n) == SetChildrenFrom(h, n, 1)

\* ------------------------------------------------------- content extractor
\* The pages range(a, b) yields, as a sequence
Range(a, b) == [k \in 1..(IF b > a THEN b - a ELSE 0) |-> a + k - 1]

SelectPages(s) == SelectSeq(s, LAMBDA p : p >= 0 /\ p < TotalPages)

\* Pages counted from 1 used as indexes, with no conversion to 0-based
PageRangeOneBased(h, n) ==
    LET start_page == h[n].page_number
        raw_end == h[n].next_sibling_page
        end_page == IF raw_end > TotalPages THEN TotalPages ELSE raw_end
        page_range == IF start_page = end_page
                      THEN <<start_page>>
                      ELSE Range(start_page, end_page + 1)
    IN  IF h[n].next_sibling_page = NoPage
        THEN <<>>
        ELSE IF start_page < 0 \/ start_page >= TotalPages
             THEN <<>>
             ELSE page_range

\* The page indexes the loop of extract_chapter_content goes through
PageRange(h, n) ==
    LET start_page == h[n].page_number - 1
        raw_end == h[n].next_sibling_page - 1
        end_page == IF raw_end > TotalPages THEN TotalPages ELSE raw_end
        page_range == IF start_page = end_page
                      THEN <<start_page>>
                      ELSE Range(start_page, end_page + 1)
    IN  IF h[n].next_sibling_page = NoPage
        THEN <<>>
        ELSE IF start_page < 0 \/ start_page >= TotalPages
             THEN <<>>
             ELSE page_range

extract_chapter_content(h, n) == SelectPages(PageRange(h, n))

\* ------------------------------------------------------- leaf serializer
\* _collect_leaf_nodes(node, leaf_nodes): the heap and the list it leaves, and
\* the nodes extract_chapter_content was called on
RECURSIVE _collect_leaf_nodes(_, _, _)

\* The content of a leaf is extracted at every serialization
RECURSIVE CollectExtractingAnew(_, _, _)
RECURSIVE CollectAnewChildFrom(_, _, _, _)
CollectAnewChildFrom(h, kids, i, leaf_nodes) ==
    IF i > Len(kids)
    THEN [heap |-> h, leaf_nodes |-> leaf_nodes, calls |-> {}]
    ELSE LET r == CollectExtractingAnew(h, kids[i], leaf_nodes)
             rest == CollectAnewChildFrom(r.heap, kids, i + 1, r.leaf_nodes)
         IN  [rest EXCEPT !.calls = r.calls \cup @]

CollectExtractingAnew(h, n, leaf_nodes) ==
    IF h[n].title = RootTitle \/ h[n].children # <<>>
    THEN CollectAnewChildFrom(h, h[n].children, 1, leaf_nodes)
    ELSE LET h1 == [h EXCEPT ![n].content = extract_chapter_content(h, n)]
             h2 == ToDictHeap(h1, n)
         IN  [heap |-> h2, leaf_nodes |-> Append(leaf_nodes, to_dict(h2, n)),
              calls |-> {n}]

\* Every node below the root is extracted and emitted, with or without children
RECURSIVE CollectEveryNode(_, _, _)
RECURSIVE CollectEveryChildFrom(_, _, _, _)
CollectEveryChildFrom(h, kids, i, leaf_nodes) ==
    IF i > Len(kids)
    THEN [heap |-> h, leaf_nodes |-> leaf_nodes, calls |-> {}]
    ELSE LET r == CollectEveryNode(h, kids[i], leaf_nodes)
             rest == CollectEveryChildFrom(r.heap, kids, i + 1, r.leaf_nodes)
         IN  [rest EXCEPT !.calls = r.calls \cup @]

CollectEveryNode(h, n, leaf_nodes) ==
    IF h[n].title = RootTitle
    THEN CollectEveryChildFrom(h, h[n].children, 1, leaf_nodes)
    ELSE LET h1 == IF h[n].content = <<>>
                   THEN [h EXCEPT ![n].content = extract_chapter_content(h, n)]
                   ELSE h
             h2 == ToDictHeap(h1, n)
             r == CollectEveryChildFrom(h2, h[n].children, 1,
                                        Append(leaf_nodes, to_dict(h2, n)))
         IN  [r EXCEPT !.calls = @ \cup (IF h[n].content = <<>> THEN {n} ELSE {})]

RECURSIVE CollectChildrenFrom(_, _, _, _)
CollectChildrenFrom(h, kids, i, leaf_nodes) ==
    IF i > Len(kids)
    THEN [heap |-> h, leaf_nodes |-> leaf_nodes, calls |-> {}]
    ELSE LET r == _collect_leaf_nodes(h, kids[i], leaf_nodes)
             rest == CollectChildrenFrom(r.heap, kids, i + 1, r.leaf_nodes)
         IN  [rest EXCEPT !.calls = r.calls \cup @]

_collect_leaf_nodes(h, n, leaf_nodes) ==
    IF h[n].title = RootTitle
    THEN CollectChildrenFrom(h, h[n].children, 1, leaf_nodes)
    ELSE IF h[n].children = <<>>
         THEN LET h1 == IF h[n].content = <<>>
                        THEN [h EXCEPT ![n].content = extract_chapter_content(h, n)]
                        ELSE h
                  h2 == ToDictHeap(h1, n)
              IN  [heap |-> h2, leaf_nodes |-> Append(leaf_nodes, to_dict(h2, n)),
                   calls |-> IF h[n].content = <<>> THEN {n} ELSE {}]
         ELSE CollectChildrenFrom(h, h[n].children, 1, leaf_nodes)

\* How the primitives of a page end: "none" when all of them work;
\* "find_tables" when find_tables() raises; "text_lines" when
\* extract_text_lines() raises and extract_text() gives the text of the page;
\* "unreadable" when extract_text_lines() and extract_text() raise; "blank"
\* when both give nothing
Faults == {"none", "find_tables", "text_lines", "unreadable", "blank"}

NoFaults == [p \in 1..TotalPages |-> "none"]

\* The documents with one page at most whose primitives do not all work
PageFaults ==
    {NoFaults} \cup {[NoFaults EXCEPT ![p] = f] :
                        p \in 1..TotalPages, f \in Faults \ {"none"}}

\* ------------------------------------------------------- state machine
\* PdfParser.__init__: no outline extracted yet
Init ==
    /\ node = <<>>
    /\ root_node = NoNode
    /\ stack = <<>>
    /\ handled = FALSE
    /\ pc = "init"
    /\ returned = ""
    /\ outline = <<>>
    /\ saved = FALSE
    /\ rerun = FALSE
    /\ first_pages = <<>>
    /\ extracted = {}
    /\ reader_outline = <<>>
    /\ pdf_files = <<>>
    /\ file_index = 0
    /\ processed_files = 0
    /\ failed_files = 0
    /\ main_pc = "start"
    /\ lines = <<>>
    /\ tables = <<>>
    /\ emitted_table_indices = {}
    /\ page_lines_collected = <<>>
    /\ page_pc = "new"
    /\ plumber = TRUE
    /\ leaf = NoNode
    /\ chapter_text = <<>>
    /\ visited = <<>>
    /\ faults = NoFaults
    /\ in_bbox = FALSE

NextSiblingPages(h) == [k \in 1..Len(h) |-> h[k].next_sibling_page]

\* extract_outline: reader.outline is empty
ExtractOutlineEmpty ==
    /\ pc = "init"
    /\ node' = <<PdfOutlineNode(RootTitle, 0, -1)>>
    /\ root_node' = 1
    /\ returned' = RootTitle
    /\ pc' = "done"
    /\ UNCHANGED <<stack, handled, outline, saved, rerun, first_pages>>
    /\ UNCHANGED extracted
    /\ UNCHANGED reader_outline
    /\ UNCHANGED batch
    /\ UNCHANGED extraction

\* extract_outline: reading reader.outline raises
ExtractOutlineError ==
    /\ pc = "init"
    /\ node' = <<PdfOutlineNode(RootTitle, 0, -1)>>
    /\ root_node' = 1
    /\ returned' = ErrorTitle
    /\ pc' = "done"
    /\ UNCHANGED <<stack, handled, outline, saved, rerun, first_pages>>
    /\ UNCHANGED extracted
    /\ UNCHANGED reader_outline
    /\ UNCHANGED batch
    /\ UNCHANGED extraction

\* extract_outline with a non-empty outline: process_outline creates its root
\* and calls process_outline_items(outline_items, root, 0)
BeginProcessOutline ==
    /\ pc = "init"
    /\ node' = <<PdfOutlineNode(RootTitle, 0, -1)>>
    /\ root_node' = 1
    /\ stack' = <<1>>
    /\ pc' = "build"
    /\ UNCHANGED <<handled, returned, outline, saved, rerun, first_pages>>
    /\ UNCHANGED extracted
    /\ UNCHANGED reader_outline
    /\ UNCHANGED batch
    /\ UNCHANGED extraction

Top == stack[Len(stack)]
Level == Len(stack) - 1

\* items[i] is a list no descriptor announced: skipped, i moves on
\* (handled: the loop has taken an element of the outline)
OrphanList ==
    /\ pc = "build"
    /\ handled' = TRUE
    /\ UNCHANGED <<node, root_node, stack, pc, returned, outline, saved, rerun, first_pages>>
    /\ UNCHANGED extracted
    /\ UNCHANGED reader_outline
    /\ UNCHANGED batch
    /\ UNCHANGED extraction

\* items[i] is a descriptor with no child list after it (outline_count None,
\* zero, or negative with no list following)
ItemLeaf ==
    /\ pc = "build"
    /\ \E t \in ItemTitles, page_number \in PageNumbers :
          /\ Len(node) < MaxNodes + 1
          /\ LET title == IF t # "" THEN t ELSE UnknownTitle
                 new == Len(node) + 1
             IN  node' = add_child(Append(node, PdfOutlineNode(title, page_number, Level)),
                                   Top, new)
    /\ handled' = TRUE
    /\ UNCHANGED <<root_node, stack, pc, returned, outline, saved, rerun, first_pages>>
    /\ UNCHANGED extracted
    /\ UNCHANGED reader_outline
    /\ UNCHANGED batch
    /\ UNCHANGED extraction

\* items[i] is a descriptor with negative outline_count and items[i+1] is a
\* list: recursion into process_outline_items(child_list, node, level + 1)
ItemWithChildren ==
    /\ pc = "build"
    /\ Len(node) < MaxNodes + 1
    /\ \E t \in ItemTitles, page_number \in PageNumbers :
          LET title == IF t # "" THEN t ELSE UnknownTitle
              new == Len(node) + 1
          IN  /\ node' = add_child(Append(node, PdfOutlineNode(title, page_number, Level)),
                                   Top, new)
              /\ stack' = Append(stack, new)
    /\ handled' = TRUE
    /\ UNCHANGED <<root_node, pc, returned, outline, saved, rerun, first_pages>>
    /\ UNCHANGED extracted
    /\ UNCHANGED reader_outline
    /\ UNCHANGED batch
    /\ UNCHANGED extraction

\* items[i] has no title attribute: a node titled str(item) with page 0
ItemOther ==
    /\ pc = "build"
    /\ Len(node) < MaxNodes + 1
    /\ \E t \in {"A"} :
          node' = add_child(Append(node, PdfOutlineNode(t, 0, Level)),
                            Top, Len(node) + 1)
    /\ handled' = TRUE
    /\ UNCHANGED <<root_node, stack, pc, returned, outline, saved, rerun, first_pages>>
    /\ UNCHANGED extracted
    /\ UNCHANGED reader_outline
    /\ UNCHANGED batch
    /\ UNCHANGED extraction

\* i reaches len(items) in a child list: the recursive call returns
EndChildList ==
    /\ pc = "build"
    /\ Len(stack) > 1
    /\ stack' = SubSeq(stack, 1, Len(stack) - 1)
    /\ UNCHANGED <<node, root_node, handled, pc, returned, outline, saved, rerun, first_pages>>
    /\ UNCHANGED extracted
    /\ UNCHANGED reader_outline
    /\ UNCHANGED batch
    /\ UNCHANGED extraction

\* i reaches len(items) in the top-level list, which is not empty (223):
\* process_outline sets the boundaries and extract_outline returns the root
EndOutline ==
    /\ pc = "build"
    /\ Len(stack) = 1
    /\ handled
    /\ node' = _set_next_sibling_pages(node, root_node)
    /\ first_pages' = NextSiblingPages(node')
    /\ stack' = <<>>
    /\ returned' = RootTitle
    /\ pc' = "done"
    /\ UNCHANGED <<root_node, handled, outline, saved, rerun>>
    /\ UNCHANGED extracted
    /\ UNCHANGED reader_outline
    /\ UNCHANGED batch
    /\ UNCHANGED extraction

\* _set_next_sibling_pages(root) called again on the resolved tree
SetNextSiblingPagesAgain ==
    /\ pc = "done"
    /\ first_pages # <<>>
    /\ node' = _set_next_sibling_pages(node, root_node)
    /\ rerun' = TRUE
    /\ UNCHANGED <<root_node, stack, handled, pc, returned, outline, saved, first_pages>>
    /\ UNCHANGED extracted
    /\ UNCHANGED reader_outline
    /\ UNCHANGED batch
    /\ UNCHANGED extraction

\* save_outline_to_json: the outline list of the JSON document
SaveOutlineToJson ==
    /\ pc = "done"
    /\ root_node # NoNode
    /\ LET r == _collect_leaf_nodes(node, root_node, <<>>)
       IN  /\ node' = r.heap
           /\ outline' = r.leaf_nodes
           /\ extracted' = extracted \cup r.calls
    /\ saved' = TRUE
    /\ UNCHANGED <<root_node, stack, handled, pc, returned, rerun, first_pages>>
    /\ UNCHANGED reader_outline
    /\ UNCHANGED batch
    /\ UNCHANGED extraction

Next ==
    \/ ExtractOutlineEmpty
    \/ ExtractOutlineError
    \/ BeginProcessOutline
    \/ OrphanList
    \/ ItemLeaf
    \/ ItemWithChildren
    \/ ItemOther
    \/ EndChildList
    \/ EndOutline
    \/ SetNextSiblingPagesAgain
    \/ SaveOutlineToJson

Spec == Init /\ [][Next]_vars

\* ------------------------------------------------------- outlines with every page resolved
\* The trees process_outline_items builds: nodes are numbered as they are
\* created, which is the pre-order of the tree, so the parent of node k is
\* node k - 1 or one of its ancestors.
RECURSIVE OnPath(_, _, _)
OnPath(parents, a, k) == a = k \/ (k > 1 /\ OnPath(parents, a, parents[k]))

ParentVectors(n) ==
    {parents \in [2..(n + 1) -> 1..n] :
        \A k \in 2..(n + 1) :
            /\ parents[k] < k
            /\ k > 2 => OnPath(parents, parents[k], k - 1)}

RECURSIVE LevelOf(_, _)
LevelOf(parents, k) == IF parents[k] = 1 THEN 0 ELSE 1 + LevelOf(parents, parents[k])

TreeOf(parents, titles, pages) ==
    LET n == Len(pages)
        kids(k) == SelectSeq([j \in 1..(n + 1) |-> j], LAMBDA j : j > 1 /\ parents[j] = k)
    IN  [k \in 1..(n + 1) |->
            IF k = 1
            THEN [PdfOutlineNode(RootTitle, 0, -1) EXCEPT !.children = kids(1)]
            ELSE [PdfOutlineNode(titles[k - 1], pages[k - 1], LevelOf(parents, k))
                      EXCEPT !.children = kids(k), !.parent = parents[k]]]

\* Every page in 1..total_pages, never decreasing in pre-order
OrderedPages(n) ==
    {pages \in [1..n -> 1..TotalPages] : \A k \in 1..(n - 1) : pages[k] <= pages[k + 1]}

PagedTrees ==
    UNION {{TreeOf(parents, titles, pages) :
                parents \in ParentVectors(n),
                titles \in [1..n -> {"A", RootTitle}],
                pages \in OrderedPages(n)} : n \in 1..MaxNodes}

\* process_outline_items has built one of the PagedTrees and is about to return
RangeInit ==
    /\ node \in PagedTrees
    /\ root_node = 1
    /\ stack = <<1>>
    /\ handled = TRUE
    /\ pc = "build"
    /\ returned = ""
    /\ outline = <<>>
    /\ saved = FALSE
    /\ rerun = FALSE
    /\ first_pages = <<>>
    /\ extracted = {}
    /\ reader_outline = <<>>
    /\ pdf_files = <<>>
    /\ file_index = 0
    /\ processed_files = 0
    /\ failed_files = 0
    /\ main_pc = "start"
    /\ lines = <<>>
    /\ tables = <<>>
    /\ emitted_table_indices = {}
    /\ page_lines_collected = <<>>
    /\ page_pc = "new"
    /\ plumber = TRUE
    /\ leaf = NoNode
    /\ chapter_text = <<>>
    /\ visited = <<>>
    /\ faults = NoFaults
    /\ in_bbox = FALSE

RangeNext ==
    \/ EndOutline
    \/ SaveOutlineToJson

RangeSpec == RangeInit /\ [][RangeNext]_vars

\* ------------------------------------------------------- the outline as data
\* reader.outline as a value: a sequence whose elements are outline items
\* (kind "item": title, page destination, outline_count), nested lists (kind
\* "list") and objects without a title attribute (kind "other").  A
\* destination says how its lookup ends: lookup "ok" with the 0-based index
\* get_destination_page_number returns; lookup "raise" with the fallback
\* search finding the 0-based index ("found"), finding no page ("missing")
\* or raising ("raise"); "nopage" when item.page is None.
NoDest == [lookup |-> "nopage", fallback |-> "none", index |-> 0]

Destinations ==
    {NoDest,
     [lookup |-> "ok", fallback |-> "none", index |-> 0],
     [lookup |-> "raise", fallback |-> "found", index |-> MaxPage - 1],
     [lookup |-> "raise", fallback |-> "missing", index |-> 0],
     [lookup |-> "raise", fallback |-> "raise", index |-> 0]}

OutlineItem(dest, outline_count) ==
    [kind |-> "item", title |-> "A", dest |-> dest,
     outline_count |-> outline_count, items |-> <<>>]

NestedList(items) ==
    [kind |-> "list", title |-> "", dest |-> NoDest, outline_count |-> 0, items |-> items]

OtherObject ==
    [kind |-> "other", title |-> "Other", dest |-> NoDest, outline_count |-> 0,
     items |-> <<>>]

\* An outline that cannot be read: reader.outline raises
RaisingOutline ==
    <<[kind |-> "raise", title |-> "", dest |-> NoDest, outline_count |-> 0,
       items |-> <<>>]>>

\* The elements a document's outline is written with, one at a time
OutlineElements ==
    {OutlineItem(d, c) : d \in Destinations, c \in {-1, 0}}
        \cup {OtherObject, NestedList(<<>>)}

\* Number of elements of an outline, nested ones included
RECURSIVE OutlineSize(_)
RECURSIVE OutlineSizeFrom(_, _)
OutlineSizeFrom(items, i) ==
    IF i > Len(items)
    THEN 0
    ELSE 1 + OutlineSize(items[i].items) + OutlineSizeFrom(items, i + 1)

OutlineSize(items) == OutlineSizeFrom(items, 1)

\* How many nested lists are open at the end of an outline
RECURSIVE OpenDepth(_)
OpenDepth(items) ==
    IF items = <<>> \/ items[Len(items)].kind # "list"
    THEN 0
    ELSE 1 + OpenDepth(items[Len(items)].items)

\* The outline with element e written at the end of its d-th open list
RECURSIVE AppendAtDepth(_, _, _)
AppendAtDepth(items, d, e) ==
    IF d = 0
    THEN Append(items, e)
    ELSE [items EXCEPT ![Len(items)].items = AppendAtDepth(@, d - 1, e)]

\* ------------------------------------------------------- outline tree builder
\* The unresolved page is left as None (NoPage) where the code leaves 0
GetPageNumberNone(item) ==
    IF item.dest.lookup = "nopage"
    THEN 0
    ELSE IF item.dest.lookup = "ok"
         THEN item.dest.index + 1
         ELSE IF item.dest.fallback = "found"
              THEN item.dest.index + 1
              ELSE NoPage

get_page_number(item) ==
    IF item.dest.lookup = "nopage"
    THEN 0
    ELSE IF item.dest.lookup = "ok"
         THEN item.dest.index + 1
         ELSE IF item.dest.fallback = "found"
              THEN item.dest.index + 1
              ELSE 0

\* An orphan list is walked like a child list of parent_node
RECURSIVE ItemsLoopOrphansAdopted(_, _, _, _, _)
ItemsLoopOrphansAdopted(items, i, h, parent_node, level) ==
    IF i > Len(items)
    THEN h
    ELSE LET item == items[i]
             new == Len(h) + 1
         IN  IF item.kind = "list"
             THEN ItemsLoopOrphansAdopted(items, i + 1,
                      ItemsLoopOrphansAdopted(item.items, 1, h, parent_node, level),
                      parent_node, level)
             ELSE IF item.kind = "item"
                  THEN LET title == IF item.title # "" THEN item.title ELSE UnknownTitle
                           h1 == add_child(
                                     Append(h, PdfOutlineNode(title, get_page_number(item), level)),
                                     parent_node, new)
                       IN  IF item.outline_count < 0 /\ i + 1 <= Len(items)
                                  /\ items[i + 1].kind = "list"
                           THEN ItemsLoopOrphansAdopted(items, i + 2,
                                    ItemsLoopOrphansAdopted(items[i + 1].items, 1, h1, new, level + 1),
                                    parent_node, level)
                           ELSE ItemsLoopOrphansAdopted(items, i + 1, h1, parent_node, level)
                  ELSE ItemsLoopOrphansAdopted(items, i + 1,
                           add_child(Append(h, PdfOutlineNode(item.title, 0, level)),
                                     parent_node, new),
                           parent_node, level)

\* The while loop of process_outline_items from index i (1-based) on heap h
RECURSIVE ItemsLoop(_, _, _, _, _)
ItemsLoop(items, i, h, parent_node, level) ==
    IF i > Len(items)
    THEN h
    ELSE LET item == items[i]
             new == Len(h) + 1
         IN  IF item.kind = "list"
             THEN ItemsLoop(items, i + 1, h, parent_node, level)
             ELSE IF item.kind = "item"
                  THEN LET title == IF item.title # "" THEN item.title ELSE UnknownTitle
                           h1 == add_child(
                                     Append(h, PdfOutlineNode(title, get_page_number(item), level)),
                                     parent_node, new)
                       IN  IF item.outline_count < 0 /\ i + 1 <= Len(items)
                                  /\ items[i + 1].kind = "list"
                           THEN ItemsLoop(items, i + 2,
                                    ItemsLoop(items[i + 1].items, 1, h1, new, level + 1),
                                    parent_node, level)
                           ELSE ItemsLoop(items, i + 1, h1, parent_node, level)
                  ELSE ItemsLoop(items, i + 1,
                           add_child(Append(h, PdfOutlineNode(item.title, 0, level)),
                                     parent_node, new),
                           parent_node, level)

process_outline_items(items, h, parent_node, level) ==
    ItemsLoop(items, 1, h, parent_node, level)

\* process_outline: the heap it leaves, its root being object 1
process_outline(outline_items) ==
    LET root == <<PdfOutlineNode(RootTitle, 0, -1)>>
    IN  IF outline_items = <<>>
        THEN root
        ELSE _set_next_sibling_pages(process_outline_items(outline_items, root, 1, 0), 1)

\* An empty outline is answered with the error node
ExtractOutlineEmptyIsError(outline_data) ==
    IF outline_data = RaisingOutline \/ outline_data = <<>>
    THEN [heap |-> <<PdfOutlineNode(RootTitle, 0, -1)>>, returned |-> ErrorTitle]
    ELSE [heap |-> process_outline(outline_data), returned |-> RootTitle]

\* extract_outline: the heap behind self.root_node and the title of the node
\* it returns
extract_outline(outline_data) ==
    IF outline_data = RaisingOutline
    THEN [heap |-> <<PdfOutlineNode(RootTitle, 0, -1)>>, returned |-> ErrorTitle]
    ELSE IF outline_data = <<>>
         THEN [heap |-> <<PdfOutlineNode(RootTitle, 0, -1)>>, returned |-> RootTitle]
         ELSE [heap |-> process_outline(outline_data), returned |-> RootTitle]

\* The document's outline, one more element at the end of an open list
OutlineElement ==
    /\ pc = "init"
    /\ node = <<>>
    /\ reader_outline # RaisingOutline
    /\ OutlineSize(reader_outline) < MaxItems
    /\ \E e \in OutlineElements, d \in 0..OpenDepth(reader_outline) :
          reader_outline' = AppendAtDepth(reader_outline, d, e)
    /\ UNCHANGED <<node, root_node, stack, handled, pc, returned, outline, saved,
                   rerun, first_pages, extracted>>
    /\ UNCHANGED batch
    /\ UNCHANGED extraction

\* A document whose outline cannot be read
OutlineUnreadable ==
    /\ pc = "init"
    /\ node = <<>>
    /\ reader_outline = <<>>
    /\ reader_outline' = RaisingOutline
    /\ UNCHANGED <<node, root_node, stack, handled, pc, returned, outline, saved,
                   rerun, first_pages, extracted>>
    /\ UNCHANGED batch
    /\ UNCHANGED extraction

\* extract_outline()
ExtractOutline ==
    /\ pc = "init"
    /\ node = <<>>
    /\ LET r == extract_outline(reader_outline)
       IN  /\ node' = r.heap
           /\ returned' = r.returned
           /\ first_pages' = IF reader_outline = RaisingOutline \/ reader_outline = <<>>
                             THEN <<>>
                             ELSE NextSiblingPages(r.heap)
    /\ root_node' = 1
    /\ pc' = "done"
    /\ UNCHANGED <<stack, handled, outline, saved, rerun, extracted, reader_outline>>
    /\ UNCHANGED batch
    /\ UNCHANGED extraction

BuildNext ==
    \/ OutlineElement
    \/ OutlineUnreadable
    \/ ExtractOutline
    \/ SaveOutlineToJson

BuildSpec == Init /\ [][BuildNext]_vars

\* ------------------------------------------------------- main: batch mode
\* A file of the PDF directory: whether PdfParser(pdf_path) opens it, the
\* outline of the document, and whether save_outline_to_json can write
PdfFiles ==
    {[opens |-> FALSE, outline_data |-> <<>>, saves |-> FALSE]}
        \cup [opens : {TRUE},
              outline_data : {<<>>, RaisingOutline, <<NestedList(<<>>)>>,
                              <<OutlineItem(NoDest, 0)>>},
              saves : BOOLEAN]

\* A failed save is counted nowhere
FileResultSaveUncounted(file) ==
    IF ~file.opens
    THEN "failed"
    ELSE LET r == extract_outline(file.outline_data)
         IN  IF r.returned = RootTitle /\ Len(r.heap[1].children) > 0
             THEN IF file.saves THEN "processed" ELSE "uncounted"
             ELSE "failed"

\* One iteration of the loop of main: the counter it increments
file_result(file) ==
    IF ~file.opens
    THEN "failed"
    ELSE LET r == extract_outline(file.outline_data)
         IN  IF r.returned = RootTitle /\ Len(r.heap[1].children) > 0
             THEN IF file.saves THEN "processed" ELSE "failed"
             ELSE "failed"

BatchInit ==
    /\ node = <<>>
    /\ root_node = NoNode
    /\ stack = <<>>
    /\ handled = FALSE
    /\ pc = "init"
    /\ returned = ""
    /\ outline = <<>>
    /\ saved = FALSE
    /\ rerun = FALSE
    /\ first_pages = <<>>
    /\ extracted = {}
    /\ reader_outline = <<>>
    /\ pdf_files \in UNION {[1..n -> PdfFiles] : n \in 0..MaxFiles}
    /\ file_index = 0
    /\ processed_files = 0
    /\ failed_files = 0
    /\ main_pc = "start"
    /\ lines = <<>>
    /\ tables = <<>>
    /\ emitted_table_indices = {}
    /\ page_lines_collected = <<>>
    /\ page_pc = "new"
    /\ plumber = TRUE
    /\ leaf = NoNode
    /\ chapter_text = <<>>
    /\ visited = <<>>
    /\ faults = NoFaults
    /\ in_bbox = FALSE

\* The PDF directory does not exist
MainNoDirectory ==
    /\ main_pc = "start"
    /\ main_pc' = "returned"
    /\ UNCHANGED <<pdf_files, file_index, processed_files, failed_files>>
    /\ UNCHANGED parser
    /\ UNCHANGED extraction

\* The directory holds no PDF file
MainNoFiles ==
    /\ main_pc = "start"
    /\ pdf_files = <<>>
    /\ main_pc' = "returned"
    /\ UNCHANGED <<pdf_files, file_index, processed_files, failed_files>>
    /\ UNCHANGED parser
    /\ UNCHANGED extraction

\* The counters are set to 0 and the loop starts with the first file
MainStart ==
    /\ main_pc = "start"
    /\ pdf_files # <<>>
    /\ processed_files' = 0
    /\ failed_files' = 0
    /\ file_index' = 1
    /\ main_pc' = "loop"
    /\ UNCHANGED pdf_files
    /\ UNCHANGED parser
    /\ UNCHANGED extraction

\* One iteration of the loop, its try and except included
ProcessFile ==
    /\ main_pc = "loop"
    /\ file_index <= Len(pdf_files)
    /\ LET result == file_result(pdf_files[file_index])
       IN  /\ processed_files' = processed_files + (IF result = "processed" THEN 1 ELSE 0)
           /\ failed_files' = failed_files + (IF result = "failed" THEN 1 ELSE 0)
    /\ file_index' = file_index + 1
    /\ UNCHANGED <<pdf_files, main_pc>>
    /\ UNCHANGED parser
    /\ UNCHANGED extraction

\* The loop is over: the statistics are printed
MainFinish ==
    /\ main_pc = "loop"
    /\ file_index > Len(pdf_files)
    /\ main_pc' = "finished"
    /\ UNCHANGED <<pdf_files, file_index, processed_files, failed_files>>
    /\ UNCHANGED parser
    /\ UNCHANGED extraction

BatchNext ==
    \/ MainNoDirectory
    \/ MainNoFiles
    \/ MainStart
    \/ ProcessFile
    \/ MainFinish

BatchSpec == BatchInit /\ [][BatchNext]_vars

\* ------------------------------------------------------- page primitives
\* A text is a sequence of words; NL and TAB stand for "\n" and "\t"
NL == "NL"
TAB == "TAB"

\* sep.join(parts)
RECURSIVE JoinFrom(_, _, _)
JoinFrom(parts, sep, i) ==
    IF i = Len(parts)
    THEN parts[i]
    ELSE parts[i] \o <<sep>> \o JoinFrom(parts, sep, i + 1)

Join(parts, sep) == IF parts = <<>> THEN <<>> ELSE JoinFrom(parts, sep, 1)

\* A coordinate that is None, a cell that is None, a table without bbox
NoCoord == -1
NoCell == "None"
NoBbox == <<>>

\* The word of the k-th line of a page
LineWords == <<"a", "b", "c", "d", "e">>

\* Line k of a page, as extract_text_lines gives it: its text (empty for a
\* blank line) and its box, in the left or the right column at the height of
\* its row, or without coordinates
LineAt(k, column, blank) ==
    [text |-> IF blank THEN <<>> ELSE <<LineWords[k]>>,
     x0 |-> IF column = "left" THEN 0 ELSE IF column = "right" THEN 3 ELSE NoCoord,
     x1 |-> IF column = "left" THEN 1 ELSE IF column = "right" THEN 4 ELSE NoCoord,
     top |-> IF column = "none" THEN NoCoord ELSE 2 * (k - 1),
     bottom |-> IF column = "none" THEN NoCoord ELSE 2 * (k - 1) + 1]

PageLines ==
    UNION {{[k \in 1..n |-> LineAt(k, f[k][1], f[k][2])] :
                f \in [1..n -> {"left", "right", "none"} \X BOOLEAN]} : n \in 0..MaxLines}

\* The tables find_tables gives: in the left column over the first row, the
\* first two rows or the second row, with the rows extract() returns (none
\* for a table that extracts to nothing), or without a bbox
TableBboxes == {<<0, 0, 1, 1>>, <<0, 0, 1, 3>>, <<0, 2, 1, 3>>}

TableRows(bbox) ==
    IF bbox = <<0, 0, 1, 1>>
    THEN <<<<"t1", NoCell>>>>
    ELSE IF bbox = <<0, 0, 1, 3>>
         THEN <<<<"t2", "u2">>, <<NoCell, "v2">>>>
         ELSE <<<<"t3">>, <<"u3">>>>

PageTableChoices ==
    {[bbox |-> b, extracted |-> TableRows(b)] : b \in TableBboxes}
        \cup {[bbox |-> b, extracted |-> <<>>] : b \in TableBboxes}
        \cup {[bbox |-> NoBbox, extracted |-> <<<<"t0">>>>]}

PageTables == UNION {[1..n -> PageTableChoices] : n \in 0..MaxTables}

\* ------------------------------------------------------- table reconciliation
\* "\n".join of the rows, each "\t".join of its cells, None being ""
TableText(rows) ==
    Join([r \in 1..Len(rows) |->
             Join([c \in 1..Len(rows[r]) |->
                      IF rows[r][c] = NoCell THEN <<>> ELSE <<rows[r][c]>>],
                  TAB)],
         NL)

\* The loop over tables: table_bboxes and table_text_map
RECURSIVE TablesLoop(_, _, _, _)
TablesLoop(ts, i, table_bboxes, table_text_map) ==
    IF i > Len(ts)
    THEN [table_bboxes |-> table_bboxes, table_text_map |-> table_text_map]
    ELSE IF ts[i].bbox # NoBbox /\ ts[i].extracted # <<>>
         THEN TablesLoop(ts, i + 1, Append(table_bboxes, ts[i].bbox),
                         Append(table_text_map, TableText(ts[i].extracted)))
         ELSE TablesLoop(ts, i + 1, table_bboxes, table_text_map)

\* The line lies within the table's box
LineInBboxContained(line_obj, bbox) ==
    /\ line_obj.x0 # NoCoord /\ line_obj.x1 # NoCoord
    /\ line_obj.top # NoCoord /\ line_obj.bottom # NoCoord
    /\ bbox[1] <= line_obj.x0 /\ line_obj.x1 <= bbox[3]
    /\ bbox[2] <= line_obj.top /\ line_obj.bottom <= bbox[4]

line_in_bbox(line_obj, bbox) ==
    LET bx0 == bbox[1]
        btop == bbox[2]
        bx1 == bbox[3]
        bbottom == bbox[4]
    IN  IF line_obj.x0 = NoCoord \/ line_obj.x1 = NoCoord
              \/ line_obj.top = NoCoord \/ line_obj.bottom = NoCoord
        THEN FALSE
        ELSE /\ ~(line_obj.x1 < bx0 \/ line_obj.x0 > bx1)
             /\ ~(line_obj.bottom < btop \/ line_obj.top > bbottom)

\* The loop over table_bboxes for one line: the index (from 0) of the first
\* bbox the line is in, NoCoord when it is in none
RECURSIVE BboxLoop(_, _, _)
BboxLoop(line_obj, table_bboxes, idx) ==
    IF idx >= Len(table_bboxes)
    THEN NoCoord
    ELSE IF line_in_bbox(line_obj, table_bboxes[idx + 1])
         THEN idx
         ELSE BboxLoop(line_obj, table_bboxes, idx + 1)

\* The text of a table is appended at every line in its bbox
RECURSIVE LinesLoopEveryMatch(_, _, _, _, _, _)
LinesLoopEveryMatch(ls, i, table_bboxes, table_text_map, emitted, collected) ==
    IF i > Len(ls)
    THEN [emitted_table_indices |-> emitted, page_lines_collected |-> collected]
    ELSE LET text_line == ls[i].text
             idx == BboxLoop(ls[i], table_bboxes, 0)
         IN  IF text_line = <<>>
             THEN LinesLoopEveryMatch(ls, i + 1, table_bboxes, table_text_map, emitted, collected)
             ELSE IF idx # NoCoord
                  THEN LinesLoopEveryMatch(ls, i + 1, table_bboxes, table_text_map,
                           emitted \cup {idx},
                           IF idx < Len(table_text_map)
                           THEN Append(collected, table_text_map[idx + 1])
                           ELSE collected)
                  ELSE LinesLoopEveryMatch(ls, i + 1, table_bboxes, table_text_map, emitted,
                                           Append(collected, text_line))

\* The loop over the lines of a page from line i on: emitted_table_indices
\* and page_lines_collected
RECURSIVE LinesLoop(_, _, _, _, _, _)
LinesLoop(ls, i, table_bboxes, table_text_map, emitted, collected) ==
    IF i > Len(ls)
    THEN [emitted_table_indices |-> emitted, page_lines_collected |-> collected]
    ELSE LET text_line == ls[i].text
             idx == BboxLoop(ls[i], table_bboxes, 0)
         IN  IF text_line = <<>>
             THEN LinesLoop(ls, i + 1, table_bboxes, table_text_map, emitted, collected)
             ELSE IF idx # NoCoord
                  THEN IF idx \notin emitted
                       THEN LinesLoop(ls, i + 1, table_bboxes, table_text_map,
                                emitted \cup {idx},
                                IF idx < Len(table_text_map)
                                THEN Append(collected, table_text_map[idx + 1])
                                ELSE collected)
                       ELSE LinesLoop(ls, i + 1, table_bboxes, table_text_map, emitted, collected)
                  ELSE LinesLoop(ls, i + 1, table_bboxes, table_text_map, emitted,
                                 Append(collected, text_line))

\* The lines of one page with its tables in place: steps 1) and 2) of the
\* page loop, emitted_table_indices starting empty
reconcile_page(ls, ts) ==
    LET registered == TablesLoop(ts, 1, <<>>, <<>>)
    IN  LinesLoop(ls, 1, registered.table_bboxes, registered.table_text_map, {}, <<>>)

\* A page with its lines and tables, not yet read
TableInit ==
    /\ node = <<>>
    /\ root_node = NoNode
    /\ stack = <<>>
    /\ handled = FALSE
    /\ pc = "init"
    /\ returned = ""
    /\ outline = <<>>
    /\ saved = FALSE
    /\ rerun = FALSE
    /\ first_pages = <<>>
    /\ extracted = {}
    /\ reader_outline = <<>>
    /\ pdf_files = <<>>
    /\ file_index = 0
    /\ processed_files = 0
    /\ failed_files = 0
    /\ main_pc = "start"
    /\ lines \in PageLines
    /\ tables \in PageTables
    /\ emitted_table_indices = {}
    /\ page_lines_collected = <<>>
    /\ page_pc = "new"
    /\ plumber = TRUE
    /\ leaf = NoNode
    /\ chapter_text = <<>>
    /\ visited = <<>>
    /\ faults = NoFaults
    /\ in_bbox = FALSE

\* The page is read, for the first time or once more
ReconcilePage ==
    /\ page_pc \in {"new", "once"}
    /\ LET r == reconcile_page(lines, tables)
       IN  /\ emitted_table_indices' = r.emitted_table_indices
           /\ page_lines_collected' = r.page_lines_collected
    /\ page_pc' = IF page_pc = "new" THEN "once" ELSE "twice"
    /\ UNCHANGED <<lines, tables, plumber, leaf, chapter_text, visited, faults, in_bbox>>
    /\ UNCHANGED parser
    /\ UNCHANGED batch

TableNext == ReconcilePage

TableSpec == TableInit /\ [][TableNext]_vars

\* ------------------------------------------------------- one line and one box
\* A coordinate, and a coordinate of a line, which may be None
Coords == 0..MaxCoord
LineCoords == Coords \cup {NoCoord}

\* The lines extract_text_lines can give: x0 <= x1 and top <= bottom where
\* both are there
LineBoxes ==
    {[text |-> <<LineWords[1]>>, x0 |-> c[1], x1 |-> c[2], top |-> c[3], bottom |-> c[4]] :
        c \in {d \in LineCoords \X LineCoords \X LineCoords \X LineCoords :
                  /\ (d[1] # NoCoord /\ d[2] # NoCoord) => d[1] <= d[2]
                  /\ (d[3] # NoCoord /\ d[4] # NoCoord) => d[3] <= d[4]}}

\* The boxes (x0, top, x1, bottom) a table can have
Bboxes == {b \in Coords \X Coords \X Coords \X Coords : b[1] <= b[3] /\ b[2] <= b[4]}

\* A page with one line and one table
BboxInit ==
    /\ node = <<>>
    /\ root_node = NoNode
    /\ stack = <<>>
    /\ handled = FALSE
    /\ pc = "init"
    /\ returned = ""
    /\ outline = <<>>
    /\ saved = FALSE
    /\ rerun = FALSE
    /\ first_pages = <<>>
    /\ extracted = {}
    /\ reader_outline = <<>>
    /\ pdf_files = <<>>
    /\ file_index = 0
    /\ processed_files = 0
    /\ failed_files = 0
    /\ main_pc = "start"
    /\ lines \in {<<l>> : l \in LineBoxes}
    /\ tables \in {<<[bbox |-> b, extracted |-> <<<<"t1">>>>]>> : b \in Bboxes}
    /\ emitted_table_indices = {}
    /\ page_lines_collected = <<>>
    /\ page_pc = "new"
    /\ plumber = TRUE
    /\ leaf = NoNode
    /\ chapter_text = <<>>
    /\ visited = <<>>
    /\ faults = NoFaults
    /\ in_bbox = FALSE

\* line_in_bbox(line, bbox) for the line and the table of the page
LineInBbox ==
    /\ page_pc = "new"
    /\ in_bbox' = line_in_bbox(lines[1], tables[1].bbox)
    /\ page_pc' = "once"
    /\ UNCHANGED <<lines, tables, emitted_table_indices, page_lines_collected, plumber,
                   leaf, chapter_text, visited, faults>>
    /\ UNCHANGED parser
    /\ UNCHANGED batch

BboxNext == LineInBbox

BboxSpec == BboxInit /\ [][BboxNext]_vars

\* ------------------------------------------------------- chapter text
\* The 0-based index of the first word w of a text from index i on, -1 when
\* there is none: text.find(w)
RECURSIVE FindFrom(_, _, _)
FindFrom(text, w, i) ==
    IF i >= Len(text)
    THEN -1
    ELSE IF text[i + 1] = w THEN i ELSE FindFrom(text, w, i + 1)

Find(text, w) == IF w = "" THEN 0 ELSE FindFrom(text, w, 0)

\* title in ln
TitleIn(title, ln) == Find(ln, title) # -1

\* The 0-based index of the first of the lines, from index i on, that
\* contains the title, -1 when none does
RECURSIVE FirstLineWith(_, _, _)
FirstLineWith(collected, title, i) ==
    IF i >= Len(collected)
    THEN -1
    ELSE IF TitleIn(title, collected[i + 1]) THEN i ELSE FirstLineWith(collected, title, i + 1)

\* lst[a:] and lst[:b] for 0 <= a, b <= len(lst)
SliceFrom(lst, a) == SubSeq(lst, a + 1, Len(lst))
SliceTo(lst, b) == SubSeq(lst, 1, b)

\* text.split("\n")
RECURSIVE SplitLines(_)
SplitLines(text) ==
    LET cut == Find(text, NL)
    IN  IF cut = -1
        THEN <<text>>
        ELSE <<SliceTo(text, cut)>> \o SplitLines(SliceFrom(text, cut + 1))

\* The lines the header and footer patterns match: a page number
HeaderFooterLines == {<<"7">>}

\* str([{"text": ln}]), as two words around the line
ListOpen == "[{'text': '"
ListClose == "'}]"

\* The characters of a text: a text is a sequence of words, each standing for
\* one character unless Width says otherwise; in ASCII, "di", "ye", "nian",
\* "gongsi" and "niandubaogao" stand for the Chinese characters and words of
\* lines 636, 641 and 642
WhiteSpace == {" ", TAB}
Digits == {"7"}
Keywords == {"gongsi"}
ReportKinds == {"niandubaogao"}
ReportTitleChars ==
    WhiteSpace \cup Digits \cup Keywords \cup ReportKinds
        \cup {"di", "ye", "nian", "body", "Overview", "Results", "Part"}

\* len(word)
Width(word) ==
    CASE word \in {"body", "Part", "niandubaogao"} -> 4
      [] word = "Overview" -> 8
      [] word = "Results" -> 7
      [] word = "gongsi" -> 2
      [] word = ListOpen -> 11
      [] word = ListClose -> 3
      [] OTHER -> 1

\* text.strip()
RECURSIVE LStrip(_)
LStrip(text) ==
    IF text # <<>> /\ text[1] \in WhiteSpace \cup {NL}
    THEN LStrip(SliceFrom(text, 1))
    ELSE text

RECURSIVE RStrip(_)
RStrip(text) ==
    IF text # <<>> /\ text[Len(text)] \in WhiteSpace \cup {NL}
    THEN RStrip(SliceTo(text, Len(text) - 1))
    ELSE text

Strip(text) == RStrip(LStrip(text))

\* A piece of a pattern: between min and max characters (no upper limit when
\* max is NoLimit) out of chars, or any characters for "."
NoLimit == -1
Some(chars, min, max) == [chars |-> chars, any |-> FALSE, min |-> min, max |-> max]
One(chars) == Some(chars, 1, 1)
Optional(chars) == Some(chars, 0, 1)
Star(chars) == Some(chars, 0, NoLimit)
Plus(chars) == Some(chars, 1, NoLimit)
Dot(min, max) == [chars |-> {}, any |-> TRUE, min |-> min, max |-> max]

\* header_footer_patterns, ^ and $ left out as re.match and the $ of every
\* pattern anchor both ends
header_footer_patterns ==
    << <<Star(WhiteSpace), Optional({"di"}), Star(WhiteSpace), Plus(Digits),
         Star(WhiteSpace), One({"ye"}), Star(WhiteSpace)>>,
       <<Star(WhiteSpace), Plus(Digits), Star(WhiteSpace)>>,
       <<Star(WhiteSpace), Plus(Digits), Star(WhiteSpace), One({"/"}),
         Star(WhiteSpace), Plus(Digits), Star(WhiteSpace)>>,
       <<Star(WhiteSpace), One({"-"}), Star(WhiteSpace), Plus(Digits),
         Star(WhiteSpace), One({"-"}), Star(WhiteSpace)>>,
       <<Dot(0, 3)>>,
       <<Star(WhiteSpace), Some(Keywords, 2, 2), Star(WhiteSpace)>>,
       <<Star(WhiteSpace), Star(ReportTitleChars), Some(Digits, 4, 4), Star(WhiteSpace),
         One({"nian"}), Star(WhiteSpace), Some(ReportKinds, 4, 4), Star(WhiteSpace),
         Star(ReportTitleChars)>> >>

\* re.match(pattern, line) with the line from word i on, the pieces of the
\* pattern from piece j on, piece j having taken used characters
RECURSIVE ReMatchFrom(_, _, _, _, _)
ReMatchFrom(pattern, line, i, j, used) ==
    IF j > Len(pattern)
    THEN i > Len(line)
    ELSE \/ /\ used >= pattern[j].min
            /\ ReMatchFrom(pattern, line, i, j + 1, 0)
         \/ /\ i <= Len(line)
            /\ pattern[j].any \/ line[i] \in pattern[j].chars
            /\ pattern[j].max = NoLimit \/ used + Width(line[i]) <= pattern[j].max
            /\ ReMatchFrom(pattern, line, i + 1, j, used + Width(line[i]))

ReMatch(pattern, line) == ReMatchFrom(pattern, line, 1, 1, 0)

\* The index of the last word of the run of white space and line breaks that
\* starts at index i
RECURSIVE RunEnd(_, _)
RunEnd(text, i) ==
    IF i < Len(text) /\ text[i + 1] \in WhiteSpace \cup {NL}
    THEN RunEnd(text, i + 1)
    ELSE i

\* re.sub(r'\n\s*\n\s*\n', '\n\n', text) from index i on: a line break that
\* starts a run of white space with three line breaks or more is replaced,
\* up to the last line break of the run, by two
RECURSIVE ReSubFrom(_, _)
ReSubFrom(text, i) ==
    IF i > Len(text)
    THEN <<>>
    ELSE LET breaks == {k \in i..RunEnd(text, i) : text[k] = NL}
             last == CHOOSE k \in breaks : \A m \in breaks : m <= k
         IN  IF text[i] = NL /\ Cardinality(breaks) >= 3
             THEN <<NL, NL>> \o ReSubFrom(text, last + 1)
             ELSE <<text[i]>> \o ReSubFrom(text, i + 1)

\* The lines are matched and kept as they are, not stripped
CleanTextUnstripped(text) ==
    IF text = <<>>
    THEN <<>>
    ELSE LET split == SplitLines(text)
             cleaned_lines ==
                 SelectSeq(split,
                           LAMBDA line :
                               /\ Strip(line) # <<>>
                               /\ \A k \in 1..Len(header_footer_patterns) :
                                     ~ReMatch(header_footer_patterns[k], line))
         IN  ReSubFrom(Strip(Join(cleaned_lines, NL)), 1)

_clean_text(text) ==
    IF text = <<>>
    THEN <<>>
    ELSE LET split == SplitLines(text)
             stripped == [k \in 1..Len(split) |-> Strip(split[k])]
             cleaned_lines ==
                 SelectSeq(stripped,
                           LAMBDA line :
                               /\ line # <<>>
                               /\ \A k \in 1..Len(header_footer_patterns) :
                                     ~ReMatch(header_footer_patterns[k], line))
         IN  ReSubFrom(Strip(Join(cleaned_lines, NL)), 1)

\* Step 2.3 of the page loop: the lines before the first one that contains
\* the title of the next section
CutAtNextTitle(h, n, collected) ==
    LET next_section_title == _get_next_section_title(h, n)
        cut_index == FirstLineWith(collected, next_section_title, 0)
    IN  IF next_section_title # "" /\ cut_index # -1
        THEN SliceTo(collected, cut_index)
        ELSE collected

\* A line of text without a table around
TextLine(text) ==
    [text |-> text, x0 |-> NoCoord, x1 |-> NoCoord, top |-> NoCoord, bottom |-> NoCoord]

\* page.extract_text(): the lines of the page joined
ExtractText(page) == Join([k \in 1..Len(page.lines) |-> page.lines[k].text], NL)

\* text.splitlines()
Splitlines(text) ==
    LET parts == SplitLines(text)
    IN  IF text = <<>>
        THEN <<>>
        ELSE IF parts[Len(parts)] = <<>> THEN SliceTo(parts, Len(parts) - 1) ELSE parts

\* The lines of lines 482-483: one list holding one dictionary for each line
\* of the text, which line 504 turns into its string; a list has no
\* coordinates
ListsOfDict(lines_text) ==
    LET split == Splitlines(lines_text)
    IN  [k \in 1..Len(split) |-> TextLine(<<ListOpen>> \o split[k] \o <<ListClose>>)]

\* The text of one page on the pdfplumber path
PlumberPageText(h, n, page_num, start_page, end_page, page) ==
    LET found_tables == IF page.fault = "find_tables" THEN <<>> ELSE page.tables
        text_lines == IF page.fault = "blank"
                      THEN <<>>
                      ELSE IF page.fault = "text_lines"
                           THEN ListsOfDict(ExtractText(page))
                           ELSE page.lines
        collected == reconcile_page(text_lines, found_tables).page_lines_collected
        title_index == IF h[n].title # "" THEN FirstLineWith(collected, h[n].title, 0) ELSE -1
        start_index == IF title_index = -1 THEN 0 ELSE title_index
        from_title == IF page_num = start_page /\ collected # <<>>
                      THEN SliceFrom(collected, start_index)
                      ELSE collected
        to_next == IF (page_num = end_page \/ start_page = end_page) /\ end_page < TotalPages
                   THEN CutAtNextTitle(h, n, from_title)
                   ELSE from_title
    IN  Join(to_next, NL)

\* The text of one page on the pypdf path, page.extract_text() being the
\* lines of the page joined
FallbackPageText(h, n, page_num, start_page, end_page, page) ==
    LET text == IF page.fault = "blank" THEN <<>> ELSE ExtractText(page)
        title_pos == Find(text, h[n].title)
        from_title == IF page_num = start_page /\ title_pos # -1
                      THEN SliceFrom(text, title_pos)
                      ELSE text
        next_section_title == _get_next_section_title(h, n)
        next_title_pos == Find(from_title, next_section_title)
    IN  IF (page_num = end_page \/ start_page = end_page) /\ end_page < TotalPages
              /\ next_section_title # "" /\ next_title_pos # -1
        THEN SliceTo(from_title, next_title_pos)
        ELSE from_title

\* The body of the page loop for the pages of page_range from index i on:
\* the list content
RECURSIVE PagesLoop(_, _, _, _, _, _, _, _, _)
PagesLoop(h, n, page_range, i, start_page, end_page, pages, with_plumber, content) ==
    IF i > Len(page_range)
    THEN content
    ELSE LET page_num == page_range[i]
             text == IF with_plumber
                     THEN PlumberPageText(h, n, page_num, start_page, end_page, pages[page_num + 1])
                     ELSE FallbackPageText(h, n, page_num, start_page, end_page, pages[page_num + 1])
             cleaned == _clean_text(text)
         IN  IF page_num < 0 \/ page_num >= TotalPages \/ cleaned = <<>>
                   \/ pages[page_num + 1].fault = "unreadable"
             THEN PagesLoop(h, n, page_range, i + 1, start_page, end_page, pages,
                            with_plumber, content)
             ELSE PagesLoop(h, n, page_range, i + 1, start_page, end_page, pages,
                            with_plumber, Append(content, cleaned))

\* extract_chapter_content with the text of the pages: the pages the loop
\* goes through and the content returned
extract_chapter_text(h, n, pages, with_plumber) ==
    LET start_page == h[n].page_number - 1
        raw_end == h[n].next_sibling_page - 1
        end_page == IF raw_end > TotalPages THEN TotalPages ELSE raw_end
        page_range == IF start_page = end_page
                      THEN <<start_page>>
                      ELSE Range(start_page, end_page + 1)
    IN  IF h[n].next_sibling_page = NoPage \/ start_page < 0 \/ start_page >= TotalPages
        THEN [visited |-> <<>>, text |-> <<>>]
        ELSE [visited |-> page_range,
              text |-> Join(PagesLoop(h, n, page_range, 1, start_page, end_page, pages,
                                      with_plumber, <<>>),
                            NL)]

\* An outline entry with a title, resolved to a page and with an outline_count
ChapterItem(title, page_number, outline_count) ==
    [kind |-> "item", title |-> title,
     dest |-> [lookup |-> "ok", fallback |-> "none", index |-> page_number - 1],
     outline_count |-> outline_count, items |-> <<>>]

\* The entry own below d nested entries titled "Part", all on page 1
RECURSIVE NestedChapter(_, _)
NestedChapter(d, own) ==
    IF d = 0
    THEN <<own>>
    ELSE <<ChapterItem("Part", 1, -1), NestedList(NestedChapter(d - 1, own))>>

\* Outlines with the chapter "Overview" on page 1, nested or not, last of the
\* document or followed by the top-level chapter "Results" on page 1 or 2
ChapterOutlines ==
    {NestedChapter(d, ChapterItem("Overview", 1, 0)) \o following :
         d \in 0..MaxDepth,
         following \in {<<>>, <<ChapterItem("Results", 1, 0)>>,
                        <<ChapterItem("Results", 2, 0)>>}}

ChapterTexts ==
    {<<"body">>, <<"Overview">>, <<"Results">>, <<"body", "Results">>, <<"7">>}

ChapterLines ==
    UNION {[1..n -> {TextLine(t) : t \in ChapterTexts}] : n \in 0..MaxLines}

\* A parser on a document with one of the ChapterOutlines, every page of
\* which has the same lines and no table
ChapterInit ==
    /\ node = <<>>
    /\ root_node = NoNode
    /\ stack = <<>>
    /\ handled = FALSE
    /\ pc = "init"
    /\ returned = ""
    /\ outline = <<>>
    /\ saved = FALSE
    /\ rerun = FALSE
    /\ first_pages = <<>>
    /\ extracted = {}
    /\ reader_outline \in ChapterOutlines
    /\ pdf_files = <<>>
    /\ file_index = 0
    /\ processed_files = 0
    /\ failed_files = 0
    /\ main_pc = "start"
    /\ lines \in ChapterLines
    /\ tables = <<>>
    /\ emitted_table_indices = {}
    /\ page_lines_collected = <<>>
    /\ page_pc = "new"
    /\ plumber \in BOOLEAN
    /\ leaf = NoNode
    /\ chapter_text = <<>>
    /\ visited = <<>>
    /\ faults \in PageFaults
    /\ in_bbox = FALSE

\* extract_chapter_content(node) for a leaf of the tree
ExtractChapterContent ==
    /\ pc = "done"
    /\ leaf = NoNode
    /\ \E n \in 2..Len(node) :
          /\ node[n].children = <<>>
          /\ LET r == extract_chapter_text(node, n,
                           [p \in 1..TotalPages |->
                               [lines |-> lines, tables |-> tables, fault |-> faults[p]]],
                           plumber)
             IN  /\ chapter_text' = r.text
                 /\ visited' = r.visited
          /\ leaf' = n
    /\ UNCHANGED <<lines, tables, emitted_table_indices, page_lines_collected, page_pc,
                   plumber, faults, in_bbox>>
    /\ UNCHANGED parser
    /\ UNCHANGED batch

ChapterNext ==
    \/ ExtractOutline
    \/ ExtractChapterContent

ChapterSpec == ChapterInit /\ [][ChapterNext]_vars

\* ------------------------------------------------------- text cleaning
\* The lines a text is made of here: a blank one and one of white space,
\* body text with white space around or with a number, a number alone, a page
\* of pages, a page number between dashes and one three characters short, a
\* page marker, a keyword, the title of a report alone and after a dash
CleanLines ==
    {<<>>, <<" ">>,
     <<" ", "body", " ">>, <<"body", " ", "7">>,
     <<"7", "7", "7", "7">>,
     <<"7", "7", "7", "7", "/", "7">>,
     <<"-", "7", "7", "-">>, <<"7", "7", "7", "-">>,
     <<"di", "7", "7", "ye">>,
     <<" ", "gongsi">>,
     <<"7", "7", "7", "7", "nian", "niandubaogao">>,
     <<"body", "-", "7", "7", "7", "7", "nian", "niandubaogao">>}

\* A text of MaxTextLines lines at most, not yet cleaned
CleanInit ==
    /\ node = <<>>
    /\ root_node = NoNode
    /\ stack = <<>>
    /\ handled = FALSE
    /\ pc = "init"
    /\ returned = ""
    /\ outline = <<>>
    /\ saved = FALSE
    /\ rerun = FALSE
    /\ first_pages = <<>>
    /\ extracted = {}
    /\ reader_outline = <<>>
    /\ pdf_files = <<>>
    /\ file_index = 0
    /\ processed_files = 0
    /\ failed_files = 0
    /\ main_pc = "start"
    /\ lines \in UNION {[1..n -> {TextLine(t) : t \in CleanLines}] : n \in 0..MaxTextLines}
    /\ tables = <<>>
    /\ emitted_table_indices = {}
    /\ page_lines_collected = <<>>
    /\ page_pc = "new"
    /\ plumber = FALSE
    /\ leaf = NoNode
    /\ chapter_text = <<>>
    /\ visited = <<>>
    /\ faults = NoFaults
    /\ in_bbox = FALSE

\* text = self._clean_text(text) for the text of the page
CleanText ==
    /\ page_pc = "new"
    /\ chapter_text' = _clean_text(ExtractText([lines |-> lines]))
    /\ page_pc' = "once"
    /\ UNCHANGED <<lines, tables, emitted_table_indices, page_lines_collected, plumber,
                   leaf, visited, faults, in_bbox>>
    /\ UNCHANGED parser
    /\ UNCHANGED batch

CleanNext == CleanText

CleanSpec == CleanInit /\ [][CleanNext]_vars

\* ------------------------------------------------------- the tree, by position
\* These describe the tree by the links add_child made, never by titles.
NonRoot == {n \in 1..Len(node) : n # root_node}

Children(n) == node[n].children

Pos(n) == CHOOSE i \in 1..Len(Children(node[n].parent)) : Children(node[n].parent)[i] = n

IsLastChild(n) == Pos(n) = Len(Children(node[n].parent))

FollowingSibling(n) ==
    IF IsLastChild(n) THEN NoNode ELSE Children(node[n].parent)[Pos(n) + 1]

RECURSIVE Depth(_)
Depth(n) == IF node[n].parent = root_node THEN 1 ELSE 1 + Depth(node[n].parent)

\* The nodes from the top-level ancestor of n down to n itself
RECURSIVE Chain(_)
Chain(n) == IF node[n].parent = root_node THEN <<n>> ELSE Append(Chain(node[n].parent), n)

RECURSIVE PreOrder(_)
RECURSIVE PreOrderFrom(_, _)
PreOrderFrom(kids, i) ==
    IF i > Len(kids) THEN <<>> ELSE PreOrder(kids[i]) \o PreOrderFrom(kids, i + 1)

PreOrder(n) == <<n>> \o PreOrderFrom(Children(n), 1)

HasValidPage(n) == node[n].page_number > 0

\* firstValidPage(B): B's page when > 0, else the first page > 0 of a
\* pre-order walk of B's subtree, NoPage when there is none
FirstValidPage(n) ==
    LET valid == SelectSeq(PreOrder(n), HasValidPage)
    IN  IF valid = <<>> THEN NoPage ELSE node[valid[1]].page_number

Titles(s) == [k \in 1..Len(s) |-> node[s[k]].title]

Resolved == pc = "done" /\ first_pages # <<>>

\* No outline entry carries the title of the root
NoRootTitledEntry == \A n \in NonRoot : node[n].title # RootTitle

\* ------------------------------------------------------- claims
\* C1: after boundary resolution, for adjacent siblings A, B under any
\* parent, A.next_sibling_page is firstValidPage(B), also when B's own page
\* is 0 and a descendant of B has a page > 0.
C1_SiblingBoundaryIsFirstValidPage ==
    Resolved =>
        \A a \in NonRoot :
            LET b == FollowingSibling(a)
            IN  (b # NoNode /\ FirstValidPage(b) # NoPage)
                    => node[a].next_sibling_page = FirstValidPage(b)

\* The boundary the upward walk of the claim gives: the first valid page of
\* the following sibling of the nearest ancestor-or-self that has one with a
\* valid page, the document end once a top-level node gives none
RECURSIVE EscalatedBoundary(_)
EscalatedBoundary(n) ==
    LET sib == FollowingSibling(n)
    IN  IF sib # NoNode /\ FirstValidPage(sib) # NoPage
        THEN FirstValidPage(sib)
        ELSE IF node[n].parent = root_node
             THEN TotalPages
             ELSE EscalatedBoundary(node[n].parent)

\* C2: a last child, at any depth, gets the first valid page of the following
\* sibling of its nearest ancestor that has one, walking up through every
\* level, and the document end only when the walk passes the top level.
C2_LastChildEscalatesEveryLevel ==
    Resolved =>
        \A n \in NonRoot :
            IsLastChild(n) => node[n].next_sibling_page = EscalatedBoundary(n)

\* C3: a last child whose ancestors up to the top level are all last
\* children gets total_pages as its next_sibling_page.
C3_TrailingChainEndsAtTotalPages ==
    Resolved =>
        \A n \in NonRoot :
            (\A k \in 1..Len(Chain(n)) : IsLastChild(Chain(n)[k]))
                => node[n].next_sibling_page = TotalPages

C3_Witness ==
    /\ Resolved
    /\ \E n \in NonRoot :
          /\ Depth(n) >= 3
          /\ \A k \in 1..Len(Chain(n)) : IsLastChild(Chain(n)[k])
          /\ node[n].next_sibling_page = TotalPages

\* C4: a second run of _set_next_sibling_pages leaves every node's
\* next_sibling_page at the value the first run gave it.
C4_ResolverIdempotent ==
    first_pages # <<>> => NextSiblingPages(node) = first_pages

C4_Witness ==
    /\ rerun
    /\ Len(node) = MaxNodes + 1
    /\ \E a \in NonRoot :
          /\ FollowingSibling(a) # NoNode
          /\ node[FollowingSibling(a)].page_number = 0
          /\ node[FollowingSibling(a)].next_sibling_page # NoPage

\* The section id by sibling rank: the 1-based position under the root,
\* else the parent's id, a dot and the 1-based position
RECURSIVE RankId(_)
RankId(n) ==
    IF node[n].parent = root_node
    THEN <<Pos(n)>>
    ELSE Append(RankId(node[n].parent), Pos(n))

\* C5: every non-root node's section id is its parent's id followed by its
\* 1-based sibling position, a single position for a child of the root.
C5_SectionIdFromSiblingRanks ==
    \A n \in NonRoot : generate_section_id(node, n) = RankId(n)

\* C6: right after add_child, with no to_dict or generate_section_id call,
\* the section_id field of a first or second level node reads "1", "2", ...
\* or "<parent id>.<position>".
C6_SectionIdFieldSetOnAttach ==
    \A n \in NonRoot : Depth(n) <= 2 => node[n].section_id = RankId(n)

\* C7: the root's section_id is None, its content is never populated, and
\* the node extract_outline returns is titled "Root".
C7_RootHasNoIdNoContent ==
    root_node # NoNode =>
        /\ node[root_node].section_id = NoneId
        /\ node[root_node].content = <<>>
        /\ pc = "done" => returned = RootTitle

\* C8: section_path of a non-root node is the titles of its ancestors, from
\* the outermost non-root ancestor down to its parent, without its own title.
C8_SectionPathExcludesOwnTitle ==
    \A n \in NonRoot :
        get_section_path(node, n) = Titles(SubSeq(Chain(n), 1, Len(Chain(n)) - 1))

\* The part of the chain of n below the nearest node on it titled "Root"
BelowRootTitle(n) ==
    LET c == Chain(n)
        cut == {k \in 1..Len(c) : node[c[k]].title = RootTitle}
        from == IF cut = {} THEN 1 ELSE (CHOOSE k \in cut : \A j \in cut : j <= k) + 1
    IN  SubSeq(c, from, Len(c))

\* C8 amended: section_path of a non-root node is the titles from its
\* outermost non-root ancestor down to and including the node itself, cut
\* off below the nearest node of that chain titled "Root".
C8_SectionPathIncludesOwnTitle ==
    /\ \A n \in NonRoot : get_section_path(node, n) = Titles(BelowRootTitle(n))
    /\ \A n \in NonRoot :
          NoRootTitledEntry => get_section_path(node, n) = Titles(Chain(n))

C8_Witness ==
    /\ saved
    /\ \E k \in 1..Len(outline) :
          /\ Len(outline[k].section_path) = 3
          /\ outline[k].section_path[1] # outline[k].section_path[2]
          /\ outline[k].section_path[3] = outline[k].section_title

\* The titles met when the components of a section id are followed from the
\* root as 1-based child indices
RECURSIVE TitlesAlong(_, _)
TitlesAlong(from, id) ==
    IF id = <<>>
    THEN <<>>
    ELSE IF id[1] \in 1..Len(Children(from))
         THEN <<node[Children(from)[id[1]]].title>>
                  \o TitlesAlong(Children(from)[id[1]], Tail(id))
         ELSE <<"no such child">>

\* C9: for every emitted record, following its section_id from the root and
\* collecting the titles visited gives the record's section_path.
C9_IdAndPathRoundTrip ==
    saved =>
        \A k \in 1..Len(outline) :
            TitlesAlong(root_node, outline[k].section_id) = outline[k].section_path

IsLeaf(n) == n # root_node /\ Children(n) = <<>>

Leaves == SelectSeq(PreOrder(root_node), IsLeaf)

\* C10: the outline has exactly one record per leaf, none for the root or a
\* node with children, in the pre-order of the leaves.
C10_OneRecordPerLeafInPreOrder ==
    saved =>
        /\ Len(outline) = Len(Leaves)
        /\ \A k \in 1..Len(outline) :
              /\ outline[k].section_title = node[Leaves[k]].title
              /\ outline[k].page = node[Leaves[k]].page_number

\* C11: every node that has a child keeps an empty content through build,
\* resolution and serialization, and extract_chapter_content is never called
\* on it.
C11_ExtractionOnlyTargetsLeaves ==
    \A n \in 1..Len(node) :
        Children(n) # <<>> => node[n].content = <<>> /\ n \notin extracted

C11_Witness ==
    /\ saved
    /\ \E n \in NonRoot :
          /\ Children(n) # <<>>
          /\ node[n].page_number > 0
          /\ node[n].content = <<>>
          /\ \E c \in NonRoot : node[c].parent = n /\ c \in extracted /\ node[c].content # <<>>

\* ------------------------------------------------------- claims on the builder
\* Element i of items is an entry that declares children and is directly
\* followed by the nested list that holds them
DeclaresChildren(items, i) ==
    /\ items[i].kind = "item"
    /\ items[i].outline_count < 0
    /\ i < Len(items)
    /\ items[i + 1].kind = "list"

\* Element i of items is a nested list that no entry before it declares
OrphanAt(items, i) ==
    /\ items[i].kind = "list"
    /\ ~(i > 1 /\ DeclaresChildren(items, i - 1))

\* Number of entries of an outline reached through declared child lists only
RECURSIVE DeclaredCount(_)
RECURSIVE DeclaredCountFrom(_, _)
DeclaredCountFrom(items, i) ==
    IF i > Len(items)
    THEN 0
    ELSE (IF items[i].kind = "list"
          THEN 0
          ELSE 1 + (IF DeclaresChildren(items, i)
                    THEN DeclaredCount(items[i + 1].items)
                    ELSE 0))
         + DeclaredCountFrom(items, i + 1)

DeclaredCount(items) == DeclaredCountFrom(items, 1)

Built == pc = "done" /\ reader_outline # RaisingOutline

\* C12: a nested list that no entry declares is skipped without an error: the
\* build returns the root, and the tree holds one node for every entry outside
\* orphan lists (those before and after an orphan list alike) and no node for
\* an entry inside one.
C12_OrphanListSkipped ==
    Built =>
        /\ returned = RootTitle
        /\ node[root_node].title = RootTitle
        /\ Len(node) - 1 = DeclaredCount(reader_outline)

C12_Witness ==
    /\ Built
    /\ \E i \in 1..Len(reader_outline) :
          /\ OrphanAt(reader_outline, i)
          /\ reader_outline[i].items # <<>>
          /\ reader_outline[i].items[1].kind = "item"
          /\ i > 1
          /\ i < Len(reader_outline)
          /\ reader_outline[i + 1].kind = "item"
    /\ Len(node[root_node].children) = 2

\* The children lists the encoding declares, as nested sequences of
\* [title, kids]: one entry per element that is no list, in the order met,
\* its kids being those of the nested list it declares
RECURSIVE DeclaredForest(_)
RECURSIVE DeclaredForestFrom(_, _)
DeclaredForestFrom(items, i) ==
    IF i > Len(items)
    THEN <<>>
    ELSE IF items[i].kind = "list"
         THEN DeclaredForestFrom(items, i + 1)
         ELSE <<[title |-> items[i].title,
                 page |-> get_page_number(items[i]),
                 kids |-> IF DeclaresChildren(items, i)
                          THEN DeclaredForest(items[i + 1].items)
                          ELSE <<>>]>>
              \o DeclaredForestFrom(items, i + 1)

DeclaredForest(items) == DeclaredForestFrom(items, 1)

\* The children lists of the built tree below node n, in the same form
RECURSIVE BuiltForest(_)
BuiltForest(n) ==
    [k \in 1..Len(node[n].children) |->
        [title |-> node[node[n].children[k]].title,
         page |-> node[node[n].children[k]].page_number,
         kids |-> BuiltForest(node[n].children[k])]]

\* C18: the children lists of the built tree are those the flat encoding
\* declares: an entry with a negative count directly followed by a nested list
\* has the nodes of that list as children, any other entry has none, and every
\* list is in input order without duplicate or loss.
C18_ChildrenAsDeclared ==
    Built => BuiltForest(root_node) = DeclaredForest(reader_outline)

C18_Witness ==
    /\ Built
    /\ Len(reader_outline) = 2
    /\ DeclaresChildren(reader_outline, 1)
    /\ Len(reader_outline[2].items) = 2
    /\ reader_outline[2].items[1].kind = "item"
    /\ reader_outline[2].items[1].outline_count = 0
    /\ reader_outline[2].items[2].kind = "item"
    /\ get_page_number(reader_outline[2].items[1]) # get_page_number(reader_outline[2].items[2])
    /\ Len(node[root_node].children) = 1
    /\ Len(node[node[root_node].children[1]].children) = 2
    /\ node[node[node[root_node].children[1]].children[1]].children = <<>>

\* The entry's destination lookup raises and the fallback finds no page or
\* raises as well
Unresolvable(item) ==
    /\ item.kind = "item"
    /\ item.dest.lookup = "raise"
    /\ item.dest.fallback \in {"missing", "raise"}

\* The entries an outline declares, in the order met (a declared child list
\* right after its entry), each with the number of children it declares
RECURSIVE DeclaredEntries(_)
RECURSIVE DeclaredEntriesFrom(_, _)
DeclaredEntriesFrom(items, i) ==
    IF i > Len(items)
    THEN <<>>
    ELSE IF items[i].kind = "list"
         THEN DeclaredEntriesFrom(items, i + 1)
         ELSE LET below == IF DeclaresChildren(items, i) THEN items[i + 1].items ELSE <<>>
              IN  <<[item |-> items[i],
                     kids |-> Len(SelectSeq(below, LAMBDA e : e.kind # "list"))]>>
                  \o DeclaredEntries(below)
                  \o DeclaredEntriesFrom(items, i + 1)

DeclaredEntries(items) == DeclaredEntriesFrom(items, 1)

\* C19: an entry whose page cannot be resolved is still a node, with page
\* number 0 and with the children it declares; the entries after it are built
\* as well, and the parse returns the root, not the error node.
C19_UnresolvedPageIsZero ==
    Built =>
        LET entries == DeclaredEntries(reader_outline)
        IN  /\ returned = RootTitle
            /\ Len(node) = 1 + Len(entries)
            /\ \A k \in 1..Len(entries) :
                  Unresolvable(entries[k].item) =>
                      /\ node[k + 1].page_number = 0
                      /\ Len(node[k + 1].children) = entries[k].kids

C19_Witness ==
    /\ Built
    /\ Len(reader_outline) = 3
    /\ Unresolvable(reader_outline[1])
    /\ reader_outline[1].dest.fallback = "raise"
    /\ DeclaresChildren(reader_outline, 1)
    /\ Len(reader_outline[2].items) = 1
    /\ Unresolvable(reader_outline[2].items[1])
    /\ reader_outline[2].items[1].dest.fallback = "missing"
    /\ reader_outline[3].kind = "item"
    /\ get_page_number(reader_outline[3]) > 0
    /\ node[2].page_number = 0
    /\ node[2].children = <<3>>
    /\ node[3].page_number = 0
    /\ node[root_node].children = <<2, 4>>
    /\ node[4].page_number > 0
    /\ returned = RootTitle

\* The places <<p, i>> of all children lists
Slots == UNION {{<<p, i>> : i \in 1..Len(node[p].children)} : p \in 1..Len(node)}

SlotsOf(n) == {s \in Slots : node[s[1]].children[s[2]] = n}

\* Following parent links from n reaches the root within the given steps
RECURSIVE ReachesRootIn(_, _)
ReachesRootIn(n, steps) ==
    IF n = root_node
    THEN TRUE
    ELSE IF steps = 0 \/ n \notin 1..Len(node)
         THEN FALSE
         ELSE ReachesRootIn(node[n].parent, steps - 1)

\* C20: what the builder leaves is a tree: the root is in no children list
\* and has no parent; every other node is in exactly one place of exactly one
\* children list, its parent field is the owner of that list, and its parent
\* links lead to the root.
C20_BuiltTreeIsATree ==
    Built =>
        /\ node[root_node].parent = NoNode
        /\ SlotsOf(root_node) = {}
        /\ \A n \in 1..Len(node) :
              n # root_node =>
                  /\ Cardinality(SlotsOf(n)) = 1
                  /\ \A s \in SlotsOf(n) : node[n].parent = s[1]
                  /\ node[n].parent # n
                  /\ ReachesRootIn(n, Len(node))

C20_Witness ==
    /\ Built
    /\ Len(reader_outline) = 3
    /\ DeclaresChildren(reader_outline, 1)
    /\ Len(reader_outline[2].items) = 1
    /\ reader_outline[2].items[1].kind = "item"
    /\ reader_outline[2].items[1].outline_count < 0
    /\ OrphanAt(reader_outline, 3)
    /\ Len(node) = 3
    /\ node[3].parent = 2
    /\ node[2].parent = root_node
    /\ node[2].children = <<3>>

\* C16: a document without outline data gives, without the error node, a root
\* titled "Root" that has no children, and the outline list serialized from it
\* is empty.
C16_NoOutlineGivesEmptyRoot ==
    (pc = "done" /\ reader_outline = <<>>) =>
        /\ returned = RootTitle
        /\ node[root_node].title = RootTitle
        /\ node[root_node].children = <<>>
        /\ Len(node) = 1
        /\ saved => outline = <<>>

C16_Witness ==
    /\ pc = "done"
    /\ reader_outline = <<>>
    /\ returned = RootTitle
    /\ node[root_node].children = <<>>
    /\ saved
    /\ outline = <<>>

\* ------------------------------------------------------- claims on the cut title
\* The title the walk of the claim gives: that of the following sibling of
\* the nearest ancestor-or-self that has one, empty when no level has one
RECURSIVE ClaimedCutTitle(_)
ClaimedCutTitle(n) ==
    IF FollowingSibling(n) # NoNode
    THEN node[FollowingSibling(n)].title
    ELSE IF node[n].parent = root_node
         THEN ""
         ELSE ClaimedCutTitle(node[n].parent)

\* C13: on an outline with no entry titled "Root", the title a leaf's text is
\* cut at on its end page is the title of the following sibling of the nearest
\* ancestor-or-self that has one, at whatever level that is, and it is empty
\* only when the leaf's boundary is the document end.
C13_CutTitleEscalatesEveryLevel ==
    (Resolved /\ NoRootTitledEntry) =>
        \A n \in NonRoot :
            IsLeaf(n) =>
                /\ _get_next_section_title(node, n) = ClaimedCutTitle(n)
                /\ _get_next_section_title(node, n) = ""
                       => node[n].next_sibling_page = TotalPages

\* ------------------------------------------------------- claims on main
\* Number of the first k files that end as saved JSON
RECURSIVE SavedAmong(_)
SavedAmong(k) ==
    IF k = 0
    THEN 0
    ELSE SavedAmong(k - 1)
         + (IF /\ pdf_files[k].opens
               /\ pdf_files[k].saves
               /\ pdf_files[k].outline_data = <<OutlineItem(NoDest, 0)>>
            THEN 1 ELSE 0)

\* C17: in the loop of main every file before the current one has been
\* counted exactly once, as processed when its JSON was saved and as failed
\* otherwise; main finishes only after the last file, with
\* processed_files + failed_files equal to the number of PDF files.
C17_BatchCountsEveryFile ==
    /\ main_pc \in {"loop", "finished"} =>
          /\ file_index \in 1..(Len(pdf_files) + 1)
          /\ processed_files + failed_files = file_index - 1
          /\ processed_files = SavedAmong(file_index - 1)
    /\ main_pc = "finished" =>
          /\ file_index = Len(pdf_files) + 1
          /\ processed_files + failed_files = Len(pdf_files)

C17_Witness ==
    /\ main_pc = "finished"
    /\ Len(pdf_files) = 3
    /\ ~pdf_files[1].opens
    /\ pdf_files[2].opens
    /\ pdf_files[2].outline_data = <<OutlineItem(NoDest, 0)>>
    /\ ~pdf_files[2].saves
    /\ pdf_files[3].outline_data = <<OutlineItem(NoDest, 0)>>
    /\ pdf_files[3].saves
    /\ processed_files = 1
    /\ failed_files = 2

\* ------------------------------------------------------- claims on the tables
\* The tables of the page that have a bbox and rows, in detection order
Registered == SelectSeq(tables, LAMBDA t : t.bbox # NoBbox /\ t.extracted # <<>>)

\* The tables whose box line k overlaps (none for a blank line)
OverlappedTables(k) ==
    IF lines[k].text = <<>>
    THEN {}
    ELSE {j \in 1..Len(Registered) : line_in_bbox(lines[k], Registered[j].bbox)}

\* The blocks of the tables, from table j on, that line k is the first to overlap
RECURSIVE BlocksFirstOverlappedAt(_, _)
BlocksFirstOverlappedAt(k, j) ==
    IF j > Len(Registered)
    THEN <<>>
    ELSE (IF j \in OverlappedTables(k) /\ \A e \in 1..(k - 1) : j \notin OverlappedTables(e)
          THEN <<TableText(Registered[j].extracted)>>
          ELSE <<>>)
         \o BlocksFirstOverlappedAt(k, j + 1)

\* The line list in which every table stands at the first line overlapping it
RECURSIVE LinesWithTablesAtFirstOverlap(_)
LinesWithTablesAtFirstOverlap(k) ==
    IF k > Len(lines)
    THEN <<>>
    ELSE (IF lines[k].text = <<>>
          THEN <<>>
          ELSE IF OverlappedTables(k) = {}
               THEN <<lines[k].text>>
               ELSE BlocksFirstOverlappedAt(k, 1))
         \o LinesWithTablesAtFirstOverlap(k + 1)

PageRead == page_pc \in {"once", "twice"}

\* C15 as stated: after a page is read, once or again, its line list holds
\* the lines that overlap no table unchanged and in order, and the block of
\* every table once, at the position of the first line whose box overlaps
\* that table; the other lines overlapping a table are dropped.
C15_TableAtFirstOverlappingLine ==
    PageRead => page_lines_collected = LinesWithTablesAtFirstOverlap(1)

\* The table line k is matched to: the first in detection order among those
\* it overlaps, 0 when it overlaps none
MatchedTable(k) ==
    IF OverlappedTables(k) = {}
    THEN 0
    ELSE CHOOSE j \in OverlappedTables(k) : \A o \in OverlappedTables(k) : j <= o

\* The line list in which every table stands at the first line matched to it
RECURSIVE LinesWithTablesAtFirstMatch(_)
LinesWithTablesAtFirstMatch(k) ==
    IF k > Len(lines)
    THEN <<>>
    ELSE (IF lines[k].text = <<>>
          THEN <<>>
          ELSE IF MatchedTable(k) = 0
               THEN <<lines[k].text>>
               ELSE IF \E e \in 1..(k - 1) : MatchedTable(e) = MatchedTable(k)
                    THEN <<>>
                    ELSE <<TableText(Registered[MatchedTable(k)].extracted)>>)
         \o LinesWithTablesAtFirstMatch(k + 1)

\* C15 amended: a non-blank line is matched to the first table, in detection
\* order, whose box it overlaps (tables without bbox or rows are not
\* considered). After a page is read, once or again, its line list holds the
\* unmatched lines unchanged and in order and, at the position of the first
\* line matched to it, the block of each table some line is matched to; the
\* later lines matched to that table are dropped, and the emitted set holds
\* exactly the matched tables.
C15_TableAtFirstMatchedLine ==
    PageRead =>
        /\ page_lines_collected = LinesWithTablesAtFirstMatch(1)
        /\ emitted_table_indices =
               {MatchedTable(k) - 1 : k \in {e \in 1..Len(lines) : MatchedTable(e) # 0}}

C15_Witness ==
    /\ page_pc = "twice"
    /\ Len(lines) = 3
    /\ Len(Registered) = 1
    /\ OverlappedTables(1) = {1}
    /\ OverlappedTables(2) = {1}
    /\ OverlappedTables(3) = {}
    /\ lines[3].text # <<>>
    /\ page_lines_collected = <<TableText(Registered[1].extracted), lines[3].text>>
    /\ emitted_table_indices = {0}

\* Every primitive of every page works
AllPagesReadable == faults = NoFaults

\* ------------------------------------------------------- claims on the chapter text
\* The extracted leaf starts and ends on one and the same page of the document
SinglePageChapter ==
    /\ leaf # NoNode
    /\ node[leaf].page_number \in 1..TotalPages
    /\ node[leaf].next_sibling_page = node[leaf].page_number

LineTexts == [k \in 1..Len(lines) |-> lines[k].text]

\* The lines from the first one containing the chapter's own title up to, not
\* including, the first one from there on containing the next chapter's
\* title (to the end of the page when there is no such line), page numbers
\* left out, joined
ClaimedSinglePageText ==
    LET own == FirstLineWith(LineTexts, node[leaf].title, 0)
        from_own == SliceFrom(LineTexts, own)
        next == IF ClaimedCutTitle(leaf) = ""
                THEN -1
                ELSE FirstLineWith(from_own, ClaimedCutTitle(leaf), 0)
        kept == IF next = -1 THEN from_own ELSE SliceTo(from_own, next)
    IN  Join(SelectSeq(kept, LAMBDA ln : ln \notin HeaderFooterLines), NL)

\* C14: for a chapter whose start page is also its end page, on the
\* pdfplumber path and with its own title on the page, extraction goes through
\* exactly that page, once, and keeps the lines from the first one containing
\* the chapter's own title up to, not including, the first one containing the
\* next chapter's title.
C14_SinglePageTrimmedAtBothTitles ==
    (SinglePageChapter /\ AllPagesReadable /\ plumber
         /\ FirstLineWith(LineTexts, node[leaf].title, 0) # -1) =>
        /\ visited = <<node[leaf].page_number - 1>>
        /\ chapter_text = ClaimedSinglePageText

\* ------------------------------------------------------- claims on the page range
\* The extracted leaf starts on a page of the document
ValidStartPage == leaf # NoNode /\ node[leaf].page_number \in 1..TotalPages

\* The 0-based pages from the leaf's start page to its boundary page, both
\* included
ClaimedPages ==
    [k \in 1..(IF node[leaf].next_sibling_page >= node[leaf].page_number
               THEN node[leaf].next_sibling_page - node[leaf].page_number + 1
               ELSE 0) |-> node[leaf].page_number - 2 + k]

\* The lines kept of the 0-based page p: from the first line with the leaf's
\* own title on if p is the start page, up to the first line with the next
\* chapter's title if p is the end page, page numbers left out
ClaimedPageLines(p) ==
    LET own == IF p = node[leaf].page_number - 1
               THEN FirstLineWith(LineTexts, node[leaf].title, 0)
               ELSE -1
        from_own == IF own = -1 THEN LineTexts ELSE SliceFrom(LineTexts, own)
        next == IF p = node[leaf].next_sibling_page - 1 /\ ClaimedCutTitle(leaf) # ""
                THEN FirstLineWith(from_own, ClaimedCutTitle(leaf), 0)
                ELSE -1
        kept == IF next = -1 THEN from_own ELSE SliceTo(from_own, next)
    IN  SelectSeq(kept, LAMBDA ln : ln \notin HeaderFooterLines)

RECURSIVE ClaimedLinesFrom(_, _)
ClaimedLinesFrom(pages, i) ==
    IF i > Len(pages)
    THEN <<>>
    ELSE ClaimedPageLines(pages[i]) \o ClaimedLinesFrom(pages, i + 1)

\* C21: for a leaf with a valid start page in a document whose pages are all
\* readable, extraction goes through the
\* 0-based pages page_number - 1 .. next_sibling_page - 1, each once and in
\* increasing order, and (on the pdfplumber path) the content is the lines of
\* these pages with only the start page trimmed at the leaf's own title and
\* only the end page trimmed at the next chapter's title.
C21_RangeInclusiveTrimmedAtItsEnds ==
    (ValidStartPage /\ AllPagesReadable) =>
        /\ visited = ClaimedPages
        /\ plumber => chapter_text = Join(ClaimedLinesFrom(ClaimedPages, 1), NL)

\* ------------------------------------------------------- claims on the start page
\* C22: once the outline is serialized, every leaf whose start page is not a
\* page of the document (page_number 0 or beyond the last page) has an empty
\* content, no page having been read for it, and the outline holds its record
\* with that empty content.
C22_LeafOutsideDocumentEmittedEmpty ==
    saved =>
        \A n \in NonRoot :
            (IsLeaf(n) /\ node[n].page_number \notin 1..TotalPages) =>
                /\ node[n].content = <<>>
                /\ \E k \in 1..Len(outline) :
                      /\ outline[k].section_title = node[n].title
                      /\ outline[k].page = node[n].page_number
                      /\ outline[k].content = <<>>

\* ------------------------------------------------------- claims on a page that fails
\* Reading the 0-based page p fails: a text or table primitive the path uses
\* raises or gives nothing
FailedPage(p) ==
    IF plumber
    THEN faults[p + 1] # "none"
    ELSE faults[p + 1] \in {"unreadable", "blank"}

\* C23: when reading a page of the chapter fails, the loop still goes through
\* every page of the range, and (on the pdfplumber path) the content is the
\* join of the lines kept of the pages that did not fail, in page order.
C23_OnlyTheFailedPageIsSkipped ==
    ValidStartPage =>
        /\ visited = ClaimedPages
        /\ plumber =>
              chapter_text =
                  Join(ClaimedLinesFrom(SelectSeq(ClaimedPages, LAMBDA p : ~FailedPage(p)), 1),
                       NL)

\* ------------------------------------------------------- claims on line_in_bbox
\* The ranges lo1..hi1 and lo2..hi2 have a point in common
RangesMeet(lo1, hi1, lo2, hi2) ==
    \E v \in Coords : lo1 <= v /\ v <= hi1 /\ lo2 <= v /\ v <= hi2

\* C24: a line is in a table's box exactly when none of its four coordinates
\* is missing and its x range and its y range each have a point in common
\* with the box's, an edge being enough and containment not being needed.
C24_InBboxIffRangesMeetOnBothAxes ==
    page_pc = "once" =>
        in_bbox = (/\ \A c \in {lines[1].x0, lines[1].x1, lines[1].top, lines[1].bottom} :
                          c # NoCoord
                   /\ RangesMeet(lines[1].x0, lines[1].x1,
                                 tables[1].bbox[1], tables[1].bbox[3])
                   /\ RangesMeet(lines[1].top, lines[1].bottom,
                                 tables[1].bbox[2], tables[1].bbox[4]))

\* A line that starts left of the box and ends inside it, and whose bottom
\* edge is the top edge of the box, is in it
C24_Witness ==
    /\ page_pc = "once"
    /\ in_bbox
    /\ lines[1].x0 # NoCoord /\ lines[1].x0 < tables[1].bbox[1]
    /\ tables[1].bbox[1] < lines[1].x1 /\ lines[1].x1 < tables[1].bbox[3]
    /\ lines[1].top # NoCoord /\ lines[1].top < tables[1].bbox[2]
    /\ lines[1].bottom = tables[1].bbox[2]

\* ------------------------------------------------------- claims on _clean_text
\* The lines of the cleaned text
CleanedLines == IF chapter_text = <<>> THEN <<>> ELSE SplitLines(chapter_text)

\* The number of characters of a line
RECURSIVE CharCount(_)
CharCount(ln) == IF ln = <<>> THEN 0 ELSE Width(ln[1]) + CharCount(SliceFrom(ln, 1))

DigitOnly(ln) == ln # <<>> /\ \A i \in 1..Len(ln) : ln[i] \in Digits

\* X/Y, -X-, the page marker with or without its first character
PageOfPages(ln) ==
    \E i \in 1..Len(ln) :
        ln[i] = "/" /\ DigitOnly(SliceTo(ln, i - 1)) /\ DigitOnly(SliceFrom(ln, i))

PageInDashes(ln) ==
    /\ Len(ln) >= 3
    /\ ln[1] = "-" /\ ln[Len(ln)] = "-"
    /\ DigitOnly(SubSeq(ln, 2, Len(ln) - 1))

PageMarker(ln) ==
    /\ Len(ln) >= 2
    /\ ln[Len(ln)] = "ye"
    /\ \/ DigitOnly(SliceTo(ln, Len(ln) - 1))
       \/ ln[1] = "di" /\ DigitOnly(SubSeq(ln, 2, Len(ln) - 1))

KeywordAlone(ln) == Len(ln) = 1 /\ ln[1] \in Keywords

\* A year of four digits, the character for year and the kind of report,
\* among nothing but letters, digits and characters
ReportTitle(ln) ==
    /\ \A i \in 1..Len(ln) : ln[i] \in ReportTitleChars
    /\ \E i \in 5..(Len(ln) - 1) :
          /\ ln[i] = "nian"
          /\ DigitOnly(SubSeq(ln, i - 4, i - 1))
          /\ ln[i + 1] \in ReportKinds

DropPattern(ln) ==
    \/ DigitOnly(ln) \/ PageOfPages(ln) \/ PageInDashes(ln) \/ PageMarker(ln)
    \/ KeywordAlone(ln) \/ CharCount(ln) < 4 \/ ReportTitle(ln)

KeptLine(k) == ~DropPattern(Strip(lines[k].text))
BlankLine(k) == Strip(lines[k].text) = <<>>

\* C26: where two kept lines of the input have two or more blank lines and
\* nothing else between them, the cleaned text has these two lines with
\* exactly one empty line between them; and the cleaned text neither starts
\* nor ends with white space.
C26_BlankRunBecomesOneBlankLine ==
    page_pc = "once" =>
        /\ chapter_text # <<>> =>
              /\ chapter_text[1] \notin WhiteSpace \cup {NL}
              /\ chapter_text[Len(chapter_text)] \notin WhiteSpace \cup {NL}
        /\ \A i, j \in 1..Len(lines) :
              (/\ i + 2 < j
               /\ KeptLine(i) /\ KeptLine(j)
               /\ \A k \in (i + 1)..(j - 1) : BlankLine(k)) =>
                  \E p \in 1..(Len(CleanedLines) - 2) :
                      /\ CleanedLines[p] = Strip(lines[i].text)
                      /\ CleanedLines[p + 1] = <<>>
                      /\ CleanedLines[p + 2] = Strip(lines[j].text)

\* ------------------------------------------------------- claims on the order of operations
\* C27: no content is extracted and nothing is serialized before the outline
\* is built and extract_outline has returned; when it has returned the root,
\* every node below the root has its next_sibling_page; and serializing an
\* outline that has been serialized gives the same records, leaves the tree
\* as it is and extracts again only leaves whose content is empty.
C27_BuildResolveExtractSerializeTwice ==
    /\ (saved \/ extracted # {} \/ \E n \in 1..Len(node) : node[n].content # <<>>) =>
           pc = "done"
    /\ (pc = "done" /\ returned = RootTitle) =>
           \A n \in NonRoot : node[n].next_sibling_page # NoPage
    /\ saved =>
           LET again == _collect_leaf_nodes(node, root_node, <<>>)
           IN  /\ again.leaf_nodes = outline
               /\ again.heap = node
               /\ \A n \in again.calls : node[n].content = <<>>

\* A serialized outline with a leaf that has a content and an id, and a leaf
\* without content
C27_Witness ==
    /\ saved
    /\ Len(outline) = 2
    /\ \E n \in NonRoot :
          IsLeaf(n) /\ n \in extracted /\ node[n].content # <<>> /\ node[n].section_id # <<>>
    /\ \E n \in NonRoot : IsLeaf(n) /\ n \in extracted /\ node[n].content = <<>>

\* ------------------------------------------------------- claims on boundaries in the tree
LastChild(n) == Children(n)[Len(Children(n))]

\* C28: after resolution, in every tree, unresolved page numbers included,
\* the last child of a node below the root that has children has the
\* next_sibling_page of that node.
C28_LastChildEndsWhereItsParentEnds ==
    (pc = "done" /\ returned = RootTitle) =>
        \A n \in NonRoot :
            Children(n) # <<>> =>
                node[LastChild(n)].next_sibling_page = node[n].next_sibling_page

\* ------------------------------------------------------- claims on the title of the root
\* The built tree before resolution and serialization, every entry titled
\* as the root given another title
Retitled ==
    [n \in 1..Len(node) |->
        [node[n] EXCEPT !.title = IF n # root_node /\ @ = RootTitle THEN "A" ELSE @,
                        !.next_sibling_page = NoPage,
                        !.content = <<>>,
                        !.section_id = <<>>]]

\* C29: an entry titled "Root" and its descendants get the section ids, the
\* section paths (up to that title), the boundary pages and the leaf records
\* they get under another title; the ids of the records are pairwise distinct
\* and every leaf has been extracted and has a record.
C29_RootKnownByPositionNotTitle ==
    (saved /\ returned = RootTitle) =>
        LET resolved == _set_next_sibling_pages(Retitled, root_node)
            other == _collect_leaf_nodes(resolved, root_node, <<>>)
        IN  /\ \A n \in NonRoot :
                  /\ node[n].next_sibling_page = resolved[n].next_sibling_page
                  /\ generate_section_id(node, n) = generate_section_id(Retitled, n)
                  /\ get_section_path(node, n) = Titles(Chain(n))
                  /\ Len(get_section_path(Retitled, n)) = Len(Chain(n))
            /\ Len(outline) = Len(other.leaf_nodes)
            /\ \A k \in 1..Len(outline) :
                  /\ outline[k].section_id = other.leaf_nodes[k].section_id
                  /\ outline[k].section_path = Titles(Chain(Leaves[k]))
                  /\ outline[k].page = other.leaf_nodes[k].page
                  /\ outline[k].content = other.leaf_nodes[k].content
            /\ \A j, k \in 1..Len(outline) :
                  j # k => outline[j].section_id # outline[k].section_id
            /\ \A n \in NonRoot : IsLeaf(n) => n \in extracted

\* ------------------------------------------------------- claims on resolved outlines
PagesInOrder ==
    LET order == PreOrder(root_node)
    IN  /\ \A n \in NonRoot : node[n].page_number \in 1..TotalPages
        /\ \A k \in 2..(Len(order) - 1) :
              node[order[k]].page_number <= node[order[k + 1]].page_number

\* C30: in a tree whose pages lie in 1..total_pages and never decrease in
\* pre-order, after resolution every node below the root has
\* page_number <= next_sibling_page <= total_pages, the page range of every
\* leaf is not empty and holds only indexes in 0..total_pages-1, and the
\* pages an extracted leaf was read from are that range.
C30_ResolvedPagesGiveRangesInsideTheDocument ==
    (pc = "done" /\ returned = RootTitle /\ PagesInOrder) =>
        /\ \A n \in NonRoot :
              /\ node[n].page_number <= node[n].next_sibling_page
              /\ node[n].next_sibling_page <= TotalPages
        /\ \A n \in NonRoot :
              IsLeaf(n) =>
                  /\ PageRange(node, n) # <<>>
                  /\ \A k \in 1..Len(PageRange(node, n)) :
                        PageRange(node, n)[k] \in 0..(TotalPages - 1)
        /\ \A n \in extracted : node[n].content = PageRange(node, n)

\* A serialized outline with a leaf on the last page, a leaf that ends where
\* it starts and a leaf over several pages
C30_Witness ==
    /\ saved
    /\ PagesInOrder
    /\ \E n \in extracted :
          node[n].page_number = TotalPages /\ node[n].content = <<TotalPages - 1>>
    /\ \E n \in extracted :
          node[n].page_number < TotalPages /\ Len(node[n].content) = 1
    /\ \E n \in extracted : Len(node[n].content) > 1

====
